---- MODULE Spec2Model ----
(***************************************************************************)
(* Token lifecycle of the Cognito OAuth MCP server.                        *)
(*                                                                         *)
(* One Session Record (this.props) is shared by the tool invocations of    *)
(* one McpAgent.  Every `await` of a network call is a suspension point:   *)
(* the code between two awaits runs as one step, and the steps of          *)
(* different invocations interleave.  Two server variants exist in the     *)
(* repository: the reactive one (refreshTokenOnFailure and                 *)
(* makeApiCallWithRetry) and the proactive one (ensureValidTokens).        *)
(***************************************************************************)
EXTENDS Integers, Sequences, FiniteSets, TLC

(***************************************************************************)
(* Bounds of the exploration.                                              *)
(***************************************************************************)
MaxInvocations == 2
StartTime == 5000

(***************************************************************************)
(* JavaScript values.  A token string is [k, n]: k is the shape of the     *)
(* string and n the serial number of the provider response it came from.   *)
(* A claim or identity field is a string; undefined is a separate value.   *)
(***************************************************************************)
undefined == "<undefined>"

undefinedTok == [k |-> "undefined", n |-> 0]

emptyTok == [k |-> "empty", n |-> 0]

\* JavaScript truthiness of a string-or-undefined value
Truthy(s) == s \notin {undefined, ""}

TruthyTok(t) == t.k \notin {"undefined", "empty"}

\* a || b
OrElse(a, b) == IF Truthy(a) THEN a ELSE b

OrElseTok(a, b) == IF TruthyTok(a) THEN a ELSE b

AccessTok(n) == [k |-> "access", n |-> n]

RefreshTok(n) == [k |-> "refresh", n |-> n]

\* The shapes of identity-token strings a provider response may carry.
IdShapes == {"jwt_full", "jwt_email2", "jwt_bare", "seg4", "badpayload"}

IdTok(shape, n) == [k |-> shape, n |-> n]

\* token.split('.').length
SegmentCount(token) ==
    CASE token.k = "seg4" -> 4
      [] token.k \in {"jwt_full", "jwt_email2", "jwt_bare", "badpayload"} -> 3
      [] OTHER -> 1

NoClaims ==
    [sub |-> undefined, email |-> undefined,
     given_name |-> undefined, family_name |-> undefined]

\* JSON.parse(atob(parts[1])): the payload of a three-segment token
DecodePayload(token) ==
    CASE token.k = "jwt_full" ->
            [threw |-> FALSE,
             payload |-> [sub |-> "u1", email |-> "e1",
                          given_name |-> "Ada", family_name |-> "Low"]]
      [] token.k = "jwt_email2" ->
            [threw |-> FALSE,
             payload |-> [sub |-> "u1", email |-> "e2",
                          given_name |-> undefined, family_name |-> undefined]]
      [] token.k = "jwt_bare" -> [threw |-> FALSE, payload |-> NoClaims]
      [] OTHER -> [threw |-> TRUE, payload |-> NoClaims]

\* parseJWT: throws unless the token has three segments and a decodable payload
parseJWT(token) ==
    IF ~TruthyTok(token) THEN [threw |-> TRUE, payload |-> NoClaims]
    ELSE IF SegmentCount(token) # 3 THEN [threw |-> TRUE, payload |-> NoClaims]
    ELSE DecodePayload(token)

\* Variant: the boundary second is not near expiry
isTokenNearExpiry_strict(tokenIssuedAt, expiryMinutes, nowv) ==
    LET tokenExpiresAt == tokenIssuedAt + (expiryMinutes * 60)
        fiveMinutesFromNow == nowv + (5 * 60)
    IN  tokenExpiresAt < fiveMinutesFromNow

\* isTokenNearExpiry, with the clock reading (seconds) as nowv
isTokenNearExpiry(tokenIssuedAt, expiryMinutes, nowv) ==
    LET tokenExpiresAt == tokenIssuedAt + (expiryMinutes * 60)
        fiveMinutesFromNow == nowv + (5 * 60)
    IN  tokenExpiresAt <= fiveMinutesFromNow

\* Variant: the email claim is preferred to the full name
DisplayName_emailFirst(payload, fallback) ==
    IF Truthy(payload.email) THEN payload.email
    ELSE IF Truthy(payload.given_name) /\ Truthy(payload.family_name)
    THEN payload.given_name \o " " \o payload.family_name
    ELSE fallback

\* `${given_name} ${family_name}` when both are set, else the fallback chain
DisplayName(payload, fallback) ==
    IF Truthy(payload.given_name) /\ Truthy(payload.family_name)
    THEN payload.given_name \o " " \o payload.family_name
    ELSE OrElse(payload.email, fallback)

\* Variant: the refresh token is taken from the response without a fallback
updatePropsWithTokens_noFallback(currentProps, tokens, nowv) ==
    LET parsed == parseJWT(tokens.id_token)
        idTokenPayload == parsed.payload
    IN  IF parsed.threw THEN [threw |-> TRUE, props |-> currentProps]
        ELSE [threw |-> FALSE,
              props |->
                [currentProps EXCEPT
                   !.accessToken = tokens.access_token,
                   !.idToken = tokens.id_token,
                   !.refreshToken = tokens.refresh_token,
                   !.tokenIssuedAt = nowv,
                   !.tokenExpiresAt = nowv + (60 * 60),
                   !.sub = OrElse(idTokenPayload.sub, currentProps.sub),
                   !.email = OrElse(idTokenPayload.email, currentProps.email),
                   !.name = DisplayName(idTokenPayload, currentProps.name)]]

\* Variant: the expiry follows the expires_in of the response
updatePropsWithTokens_expiresIn(currentProps, tokens, nowv) ==
    LET parsed == parseJWT(tokens.id_token)
        idTokenPayload == parsed.payload
    IN  IF parsed.threw THEN [threw |-> TRUE, props |-> currentProps]
        ELSE [threw |-> FALSE,
              props |->
                [currentProps EXCEPT
                   !.accessToken = tokens.access_token,
                   !.idToken = tokens.id_token,
                   !.refreshToken =
                       OrElseTok(tokens.refresh_token, currentProps.refreshToken),
                   !.tokenIssuedAt = nowv,
                   !.tokenExpiresAt = nowv + tokens.expires_in,
                   !.sub = OrElse(idTokenPayload.sub, currentProps.sub),
                   !.email = OrElse(idTokenPayload.email, currentProps.email),
                   !.name = DisplayName(idTokenPayload, currentProps.name)]]

\* Variant: sub and email are taken from the claims without a fallback
updatePropsWithTokens_claimsOnly(currentProps, tokens, nowv) ==
    LET parsed == parseJWT(tokens.id_token)
        idTokenPayload == parsed.payload
    IN  IF parsed.threw THEN [threw |-> TRUE, props |-> currentProps]
        ELSE [threw |-> FALSE,
              props |->
                [currentProps EXCEPT
                   !.accessToken = tokens.access_token,
                   !.idToken = tokens.id_token,
                   !.refreshToken =
                       OrElseTok(tokens.refresh_token, currentProps.refreshToken),
                   !.tokenIssuedAt = nowv,
                   !.tokenExpiresAt = nowv + (60 * 60),
                   !.sub = idTokenPayload.sub,
                   !.email = idTokenPayload.email,
                   !.name = DisplayName(idTokenPayload, currentProps.name)]]

\* Variant: the issue time of the record is kept
updatePropsWithTokens_keepIssuedAt(currentProps, tokens, nowv) ==
    LET parsed == parseJWT(tokens.id_token)
        idTokenPayload == parsed.payload
    IN  IF parsed.threw THEN [threw |-> TRUE, props |-> currentProps]
        ELSE [threw |-> FALSE,
              props |->
                [currentProps EXCEPT
                   !.accessToken = tokens.access_token,
                   !.idToken = tokens.id_token,
                   !.refreshToken =
                       OrElseTok(tokens.refresh_token, currentProps.refreshToken),
                   !.tokenExpiresAt = nowv + (60 * 60),
                   !.sub = OrElse(idTokenPayload.sub, currentProps.sub),
                   !.email = OrElse(idTokenPayload.email, currentProps.email),
                   !.name = DisplayName(idTokenPayload, currentProps.name)]]

\* Variant: login follows the email of the new identity token
updatePropsWithTokens_loginFollowsEmail(currentProps, tokens, nowv) ==
    LET parsed == parseJWT(tokens.id_token)
        idTokenPayload == parsed.payload
    IN  IF parsed.threw THEN [threw |-> TRUE, props |-> currentProps]
        ELSE [threw |-> FALSE,
              props |->
                [currentProps EXCEPT
                   !.accessToken = tokens.access_token,
                   !.idToken = tokens.id_token,
                   !.refreshToken =
                       OrElseTok(tokens.refresh_token, currentProps.refreshToken),
                   !.tokenIssuedAt = nowv,
                   !.tokenExpiresAt = nowv + (60 * 60),
                   !.sub = OrElse(idTokenPayload.sub, currentProps.sub),
                   !.login = OrElse(idTokenPayload.email, currentProps.email),
                   !.email = OrElse(idTokenPayload.email, currentProps.email),
                   !.name = DisplayName(idTokenPayload, currentProps.name)]]

\* updatePropsWithTokens: the new record, or threw when parseJWT throws
updatePropsWithTokens(currentProps, tokens, nowv) ==
    LET parsed == parseJWT(tokens.id_token)
        idTokenPayload == parsed.payload
    IN  IF parsed.threw THEN [threw |-> TRUE, props |-> currentProps]
        ELSE [threw |-> FALSE,
              props |->
                [currentProps EXCEPT
                   !.accessToken = tokens.access_token,
                   !.idToken = tokens.id_token,
                   !.refreshToken =
                       OrElseTok(tokens.refresh_token, currentProps.refreshToken),
                   !.tokenIssuedAt = nowv,
                   !.tokenExpiresAt = nowv + (60 * 60),
                   !.sub = OrElse(idTokenPayload.sub, currentProps.sub),
                   !.email = OrElse(idTokenPayload.email, currentProps.email),
                   !.name = DisplayName(idTokenPayload, currentProps.name)]]

\* Variant: only the token fields are copied
ObjectAssign_tokensOnly(target, source) ==
    [f \in DOMAIN target |->
        IF f \in {"accessToken", "idToken", "refreshToken"}
        THEN source[f] ELSE target[f]]

\* Object.assign(target, source): every own field of source is copied
ObjectAssign(target, source) ==
    [f \in DOMAIN target |->
        IF f \in DOMAIN source THEN source[f] ELSE target[f]]

(***************************************************************************)
(* The token endpoint.  A response either never arrives (fetch rejects),   *)
(* or carries a status and a JSON body with optional token fields;         *)
(* expires_in is 0 when the body has none.                                 *)
(***************************************************************************)
NoBody ==
    [access_token |-> undefinedTok, id_token |-> undefinedTok,
     refresh_token |-> undefinedTok, expires_in |-> 0]

\* The token bodies of exchange n that carry both tokens
CompleteBodies(n) ==
    {[access_token |-> AccessTok(n), id_token |-> IdTok("jwt_full", n),
      refresh_token |-> RefreshTok(n), expires_in |-> 3600],
     [access_token |-> AccessTok(n), id_token |-> IdTok("jwt_full", n),
      refresh_token |-> undefinedTok, expires_in |-> 7200],
     [access_token |-> AccessTok(n), id_token |-> IdTok("jwt_full", n),
      refresh_token |-> emptyTok, expires_in |-> 0],
     [access_token |-> AccessTok(n), id_token |-> IdTok("jwt_email2", n),
      refresh_token |-> RefreshTok(n), expires_in |-> 60],
     [access_token |-> AccessTok(n), id_token |-> IdTok("jwt_bare", n),
      refresh_token |-> undefinedTok, expires_in |-> 3600],
     [access_token |-> AccessTok(n), id_token |-> IdTok("seg4", n),
      refresh_token |-> RefreshTok(n), expires_in |-> 3600],
     [access_token |-> AccessTok(n), id_token |-> IdTok("badpayload", n),
      refresh_token |-> RefreshTok(n), expires_in |-> 3600]}

\* The token bodies of exchange n that lack a mandatory token
IncompleteBodies(n) ==
    {[access_token |-> undefinedTok, id_token |-> IdTok("jwt_full", n),
      refresh_token |-> RefreshTok(n), expires_in |-> 3600],
     [access_token |-> AccessTok(n), id_token |-> undefinedTok,
      refresh_token |-> RefreshTok(n), expires_in |-> 3600],
     [access_token |-> emptyTok, id_token |-> IdTok("jwt_full", n),
      refresh_token |-> RefreshTok(n), expires_in |-> 3600],
     NoBody}

\* Everything the provider may answer to exchange number n
TokenEndpointResponses(n) ==
    {[net |-> "throw", ok |-> FALSE, body |-> NoBody],
     [net |-> "resp", ok |-> FALSE, body |-> NoBody]}
    \cup
    {[net |-> "resp", ok |-> TRUE, body |-> b] :
        b \in CompleteBodies(n) \cup IncompleteBodies(n)}

\* Variant: only the identity token is required
MissingTokens_idOnly(tokens) == ~TruthyTok(tokens.id_token)

\* the check `!tokens.access_token || !tokens.id_token` of both exchanges
MissingTokens(tokens) ==
    ~TruthyTok(tokens.access_token) \/ ~TruthyTok(tokens.id_token)

\* Variant: the body is returned without the check for both tokens
refreshCognitoTokens_unchecked(resp) ==
    IF resp.net = "throw" THEN [threw |-> TRUE, err |-> 0, tokens |-> NoBody]
    ELSE IF ~resp.ok THEN [threw |-> FALSE, err |-> 500, tokens |-> NoBody]
    ELSE [threw |-> FALSE, err |-> 0, tokens |-> resp.body]

\* refreshCognitoTokens after its fetch: [tokens, null], [null, errResponse]
\* (err is the status of errResponse, 0 for null), or a thrown error
refreshCognitoTokens(resp) ==
    IF resp.net = "throw" THEN [threw |-> TRUE, err |-> 0, tokens |-> NoBody]
    ELSE IF ~resp.ok THEN [threw |-> FALSE, err |-> 500, tokens |-> NoBody]
    ELSE IF MissingTokens(resp.body)
         THEN [threw |-> FALSE, err |-> 400, tokens |-> NoBody]
    ELSE [threw |-> FALSE, err |-> 0, tokens |-> resp.body]

\* Variant: the body of the code exchange is returned without the check
fetchCognitoAuthToken_unchecked(resp) ==
    IF resp.net = "throw" THEN [threw |-> TRUE, err |-> 0, tokens |-> NoBody]
    ELSE IF ~resp.ok THEN [threw |-> FALSE, err |-> 500, tokens |-> NoBody]
    ELSE [threw |-> FALSE, err |-> 0, tokens |-> resp.body]

\* fetchCognitoAuthToken after its fetch (the code was present)
fetchCognitoAuthToken(resp) ==
    IF resp.net = "throw" THEN [threw |-> TRUE, err |-> 0, tokens |-> NoBody]
    ELSE IF ~resp.ok THEN [threw |-> FALSE, err |-> 500, tokens |-> NoBody]
    ELSE IF MissingTokens(resp.body)
         THEN [threw |-> FALSE, err |-> 400, tokens |-> NoBody]
    ELSE [threw |-> FALSE, err |-> 0, tokens |-> resp.body]

\* Variant: a rejected exchange clears the stored refresh token
RefreshAttempt_dropOnReject(p, resp, nowv) ==
    LET res == refreshCognitoTokens(resp)
        updated == updatePropsWithTokens(p, res.tokens, nowv)
    IN  IF res.threw THEN [success |-> FALSE, props |-> p]
        ELSE IF res.err # 0
             THEN [success |-> FALSE,
                   props |-> [p EXCEPT !.refreshToken = undefinedTok]]
        ELSE IF updated.threw THEN [success |-> FALSE, props |-> p]
        ELSE [success |-> TRUE, props |-> ObjectAssign(p, updated.props)]

\* Variant: the new tokens are stored before the identity token is decoded
RefreshAttempt_assignFirst(p, resp, nowv) ==
    LET res == refreshCognitoTokens(resp)
        updated == updatePropsWithTokens(p, res.tokens, nowv)
    IN  IF res.threw THEN [success |-> FALSE, props |-> p]
        ELSE IF res.err # 0 THEN [success |-> FALSE, props |-> p]
        ELSE IF updated.threw
             THEN [success |-> FALSE,
                   props |-> [p EXCEPT
                                !.accessToken = res.tokens.access_token,
                                !.idToken = res.tokens.id_token]]
        ELSE [success |-> TRUE, props |-> ObjectAssign(p, updated.props)]

\* Variant: a rejected refresh marks the record as having no issue time
RefreshAttempt_invalidateOnFailure(p, resp, nowv) ==
    LET res == refreshCognitoTokens(resp)
        updated == updatePropsWithTokens(p, res.tokens, nowv)
    IN  IF res.threw THEN [success |-> FALSE, props |-> p]
        ELSE IF res.err # 0
        THEN [success |-> FALSE, props |-> [p EXCEPT !.tokenIssuedAt = 0]]
        ELSE IF updated.threw THEN [success |-> FALSE, props |-> p]
        ELSE [success |-> TRUE, props |-> ObjectAssign(p, updated.props)]

\* The body of the try block of refreshTokenOnFailure / ensureValidTokens
\* after the exchange was awaited: the commit, or nothing on any failure.
RefreshAttempt(p, resp, nowv) ==
    LET res == refreshCognitoTokens(resp)
        updated == updatePropsWithTokens(p, res.tokens, nowv)
    IN  IF res.threw THEN [success |-> FALSE, props |-> p]
        ELSE IF res.err # 0 THEN [success |-> FALSE, props |-> p]
        ELSE IF updated.threw THEN [success |-> FALSE, props |-> p]
        ELSE [success |-> TRUE, props |-> ObjectAssign(p, updated.props)]

(***************************************************************************)
(* The downstream API.                                                     *)
(***************************************************************************)
Statuses == {200, 401, 500}

NoResponse == [status |-> 0, id |-> 0]

\* fetch(url, options) resolves with a status or rejects
DownstreamOutcomes ==
    {[threw |-> TRUE, status |-> 0]} \cup
    {[threw |-> FALSE, status |-> s] : s \in Statuses}

\* Variant: the test is repeated after every call, as a loop would
retryDecision_loop(status, maxRetries, callNo) ==
    status = 401 /\ maxRetries > 0

\* Variant: the number of retries left is not looked at
retryDecision_anyRetries(status, maxRetries, callNo) ==
    status = 401 /\ callNo = 1

\* `response.status === 401 && maxRetries > 0`, tested once, after the first
\* call (callNo is the number of downstream calls issued so far)
retryDecision(status, maxRetries, callNo) ==
    status = 401 /\ maxRetries > 0 /\ callNo = 1

\* Variant: the retry does not depend on the refresh
shouldRetry_always(refreshSuccess) == TRUE

\* `if (refreshSuccess)`: retry only after a successful refresh
shouldRetry(refreshSuccess) == refreshSuccess

\* Variant: the retry reuses the header of the first request
retryAuthorization_stale(optionsBearer, p) == optionsBearer

\* the Authorization token of newOptions: `Bearer ${this.props.idToken}`
retryAuthorization(optionsBearer, p) == p.idToken

\* tokenStatus.isNearExpiry of userInfo: `tokenExpiresIn <= 300`, with
\* tokenExpiresIn = this.props.tokenExpiresAt - now
isNearExpiry(p, nowv) == (p.tokenExpiresAt - nowv) <= 300

\* Variant: the early return is missing
needsRefresh_always(p, nowv) == TRUE

\* the guard of ensureValidTokens
needsRefresh(p, nowv) == isTokenNearExpiry(p.tokenIssuedAt, 60, nowv)

\* the guard of refreshTokenIfNeeded
tokenNearExpiry(currentProps, nowv) ==
    isTokenNearExpiry(currentProps.tokenIssuedAt, 60, nowv)

\* Variant: a failed refresh returns the props with a new issue time
refreshTokenIfNeeded_stampOnError(currentProps, resp, nowv) ==
    LET res == refreshCognitoTokens(resp)
        updated == updatePropsWithTokens(currentProps, res.tokens, nowv)
    IN  IF res.threw THEN [threw |-> TRUE, props |-> currentProps]
        ELSE IF res.err # 0
        THEN [threw |-> FALSE,
              props |-> [currentProps EXCEPT !.tokenIssuedAt = nowv]]
        ELSE updated

\* refreshTokenIfNeeded after its exchange was awaited: the props it returns,
\* or threw when the exchange or the decoding throws
refreshTokenIfNeeded(currentProps, resp, nowv) ==
    LET res == refreshCognitoTokens(resp)
        updated == updatePropsWithTokens(currentProps, res.tokens, nowv)
    IN  IF res.threw THEN [threw |-> TRUE, props |-> currentProps]
        ELSE IF res.err # 0 THEN [threw |-> FALSE, props |-> currentProps]
        ELSE updated

\* The tokens POST /refresh returns
RefreshedProps(newTokens, payload, refresh_token, nowv) ==
    [sub |-> payload.sub,
     login |-> payload.email,
     name |-> IF Truthy(payload.given_name) /\ Truthy(payload.family_name)
              THEN payload.given_name \o " " \o payload.family_name
              ELSE payload.email,
     email |-> payload.email,
     accessToken |-> newTokens.access_token,
     idToken |-> newTokens.id_token,
     refreshToken |-> OrElseTok(newTokens.refresh_token, refresh_token),
     tokenIssuedAt |-> nowv,
     tokenExpiresAt |-> nowv + (60 * 60)]

(***************************************************************************)
(* State.                                                                  *)
(***************************************************************************)
VARIABLES
    variant,    \* which server build runs: "reactive" or "proactive"
    created,    \* the callback has stored the Session Record
    props,      \* the Session Record (this.props)
    now,        \* Math.floor(Date.now() / 1000)
    exch,       \* refresh exchanges the provider has answered with a body
    started,    \* invocations started so far
    slot,       \* the invocations in progress
    applied,    \* the last direct application of a utility function
    returned,   \* what that application returned
    kvStore,    \* API-key server: the KV entry user_api_key:<userId>
    clockMs,    \* API-key server: Date.now(), in units of 1000 ms
    hasKv,      \* API-key server: the OAUTH_KV binding is present
    apiInv      \* API-key server: the tool invocation in progress

\* the state of the API-key server (src/index.ts)
apiKeyVars == <<kvStore, clockMs, hasKv, apiInv>>

\* what the token lifecycle leaves alone
rest == <<applied, returned, apiKeyVars>>

\* the state of the token lifecycle and of the direct applications
tokenVars ==
    <<variant, created, props, now, exch, started, slot, applied, returned>>

vars == <<tokenVars, apiKeyVars>>

Invs == {"a", "b"}

\* The clock readings explored, as seconds after the start: the last second
\* before a record issued at the start is near expiry, and the first one at
\* which it is.
ClockOffsets == {0, 3299, 3300}

\* the default of makeApiCallWithRetry's maxRetries, which add_todo relies on
DefaultMaxRetries == 1

\* the values of maxRetries makeApiCallWithRetry is explored with
RetryChoices == {0, 1, 2}

BlankProps ==
    [sub |-> undefined, login |-> undefined, name |-> undefined,
     email |-> undefined, accessToken |-> undefinedTok,
     idToken |-> undefinedTok, refreshToken |-> undefinedTok,
     tokenExpiresAt |-> 0, tokenIssuedAt |-> 0]

\* What kind of answer a token-endpoint response is, as the provider sees it
ResponseClass(resp) ==
    IF resp.net = "throw" THEN "throw"
    ELSE IF ~resp.ok THEN "rejected"
    ELSE IF resp.body.access_token.k # "access" \/ resp.body.id_token.n = 0
         THEN "incomplete"
    ELSE IF resp.body.id_token.k \notin {"jwt_full", "jwt_email2", "jwt_bare"}
         THEN "undecodable"
    ELSE "good"

\* An invocation: its position, its locals and what it has done so far
IdleSlot ==
    [tool |-> "none", pc |-> "idle",
     maxRetries |-> 0, force |-> FALSE,
     callNo |-> 0, nRefresh |-> 0, nWrites |-> 0,
     ensured |-> FALSE, entryNear |-> FALSE, beforeIssuedAt |-> 0,
     firstBearer |-> undefinedTok, bearer |-> undefinedTok,
     sentRT |-> undefinedTok,
     gotClass |-> "none", refreshSuccess |-> "none",
     firstResponse |-> NoResponse, response |-> NoResponse,
     ret |-> NoResponse, threw |-> FALSE,
     inProps |-> BlankProps, inRefreshToken |-> undefinedTok,
     outStatus |-> 0, outError |-> "none", outRefreshed |-> FALSE,
     outProps |-> BlankProps,
     wasRefreshed |-> FALSE]

\* No utility function has been applied directly
NoCall == [fn |-> "none", tokenIssuedAt |-> 0, expiryMinutes |-> 0, now |-> 0]

\* API-key server: an API key that is not there (undefined, null)
NoKey == "<none>"

\* API-key server: KV.get answers null
NoEntry == [format |-> "none", apiKey |-> NoKey, expiresAt |-> 0]

\* API-key server: no tool is running
IdleApiInv ==
    [tool |-> "none", pc |-> "idle", client |-> "none",
     param |-> NoKey, envKey |-> NoKey,
     data |-> NoEntry, readEntry |-> NoEntry, readAt |-> 0,
     effective |-> NoKey, sent |-> NoKey, calls |-> 0, result |-> "none"]

\* The API-key server is not part of the run
ApiKeyIdle ==
    /\ kvStore = NoEntry
    /\ clockMs = 0
    /\ hasKv = FALSE
    /\ apiInv = IdleApiInv

\* No invocation has finished without its result having been collected
NoneDone == \A j \in Invs : slot[j].pc # "done"

Init ==
    /\ variant \in {"reactive", "proactive"}
    /\ created = FALSE
    /\ props = BlankProps
    /\ now = StartTime
    /\ exch = 0
    /\ started = 0
    /\ slot = [i \in Invs |-> IdleSlot]
    /\ applied = NoCall
    /\ returned = FALSE
    /\ ApiKeyIdle

\* The clock advances to a later reading
Tick(t) ==
    /\ created
    /\ NoneDone
    /\ StartTime + t > now
    /\ now' = StartTime + t
    /\ UNCHANGED <<variant, created, props, exch, started, slot, rest>>

\* Slot i can take a new invocation.  The slots are interchangeable, so the
\* first one is taken first; results are collected before anything else runs.
Free(i) ==
    /\ NoneDone
    /\ slot[i].pc = "idle"
    /\ i = "b" => slot["a"].pc # "idle"

\* An endpoint request is handled on its own: it shares nothing with the
\* invocations of the agent but the provider.
EndpointBusy == \E j \in Invs : slot[j].tool \in {"validate_token", "refresh_endpoint"}

FreeAlone(i) ==
    /\ Free(i)
    /\ \A j \in Invs : slot[j].pc = "idle"

FreeForTool(i) ==
    /\ Free(i)
    /\ ~EndpointBusy

\* A new invocation in slot i (its locals start from IdleSlot)
Begin(i, tool) ==
    [IdleSlot EXCEPT
       !.tool = tool,
       !.entryNear = created /\ isTokenNearExpiry(props.tokenIssuedAt, 60, now),
       !.beforeIssuedAt =
           IF tool = "diagnose_tokens" THEN props.tokenIssuedAt ELSE 0]

\* The invocation sends a refresh exchange carrying refresh token rt
SendRefresh(s, rt) ==
    [s EXCEPT !.pc = "refresh_wait", !.sentRT = rt,
              !.nRefresh = @ + 1]

\* The invocation sends a downstream request authorized with token
SendCall(s, token) ==
    [s EXCEPT !.pc = "call_wait", !.callNo = @ + 1, !.bearer = token,
              !.firstBearer = IF s.callNo = 0 THEN token ELSE @]

(***************************************************************************)
(* GET /callback: the code exchange that creates the Session Record.       *)
(***************************************************************************)
\* Variant: the record's expiry is taken from the provider's expires_in
CallbackProps_providerExpiry(tokens, payload, nowv) ==
    [sub |-> payload.sub,
     login |-> payload.email,
     name |-> IF Truthy(payload.given_name) /\ Truthy(payload.family_name)
              THEN payload.given_name \o " " \o payload.family_name
              ELSE payload.email,
     email |-> payload.email,
     accessToken |-> tokens.access_token,
     idToken |-> tokens.id_token,
     refreshToken |-> tokens.refresh_token,
     tokenIssuedAt |-> nowv,
     tokenExpiresAt |-> nowv + tokens.expires_in]

\* The record the callback hands to completeAuthorization
CallbackProps(tokens, payload, nowv) ==
    [sub |-> payload.sub,
     login |-> payload.email,
     name |-> IF Truthy(payload.given_name) /\ Truthy(payload.family_name)
              THEN payload.given_name \o " " \o payload.family_name
              ELSE payload.email,
     email |-> payload.email,
     accessToken |-> tokens.access_token,
     idToken |-> tokens.id_token,
     refreshToken |-> tokens.refresh_token,
     tokenIssuedAt |-> nowv,
     tokenExpiresAt |-> nowv + (60 * 60)]

\* The callback starts: without a code it answers 400 and sends nothing
StartCallback(i, hasCode) ==
    /\ ~created
    /\ \A j \in Invs : slot[j].tool # "callback"
    /\ Free(i)
    /\ slot' = [slot EXCEPT ![i] =
                  IF hasCode
                  THEN [Begin(i, "callback") EXCEPT !.pc = "code_wait"]
                  ELSE [Begin(i, "callback") EXCEPT
                          !.pc = "done", !.outStatus = 400]]
    /\ UNCHANGED <<variant, created, props, now, exch, started, rest>>

\* The code exchange answers; on success the record is created
CallbackResponse(i, resp) ==
    /\ slot[i].pc = "code_wait"
    /\ NoneDone
    /\ LET res == fetchCognitoAuthToken(resp)
           parsed == parseJWT(res.tokens.id_token)
           fresh == CallbackProps(res.tokens, parsed.payload, now)
           failed == res.threw \/ res.err # 0 \/ parsed.threw
       IN  /\ created' = ~failed
           /\ props' = IF failed THEN props ELSE fresh
           /\ slot' = [slot EXCEPT ![i] =
                 [@ EXCEPT !.pc = "done", !.gotClass = ResponseClass(resp),
                    !.threw = res.threw \/ (res.err = 0 /\ parsed.threw),
                    !.outStatus = IF res.threw THEN 500
                                  ELSE IF res.err # 0 THEN res.err
                                  ELSE IF parsed.threw THEN 500 ELSE 302,
                    !.nWrites = IF failed THEN 0 ELSE 1]]
    /\ UNCHANGED <<variant, now, exch, started, rest>>

(***************************************************************************)
(* Reactive server: add_todo through makeApiCallWithRetry, and             *)
(* diagnose_tokens through refreshTokenOnFailure.                          *)
(***************************************************************************)
\* makeApiCallWithRetry is entered and sends the first request
StartApiCall(i, maxRetries) ==
    /\ created
    /\ variant = "reactive"
    /\ FreeForTool(i)
    /\ started < MaxInvocations
    /\ started' = started + 1
    /\ slot' = [slot EXCEPT ![i] =
                  SendCall([Begin(i, "add_todo") EXCEPT
                              !.maxRetries = maxRetries],
                           props.idToken)]
    /\ UNCHANGED <<variant, created, props, now, exch, rest>>

\* add_todo of the reactive server calls makeApiCallWithRetry(url, options)
StartAddTodoReactive(i) == StartApiCall(i, DefaultMaxRetries)

\* Variant: the answer of the retried request is never taken up
ApiCallResponse_dropsRetryAnswer(i, r) ==
    /\ variant = "reactive"
    /\ slot[i].pc = "call_wait"
    /\ slot[i].callNo = 1
    /\ NoneDone
    /\ LET s == slot[i]
           response == [status |-> r.status, id |-> s.callNo]
           refresh == ~r.threw /\ retryDecision(r.status, s.maxRetries, s.callNo)
           seen == [s EXCEPT !.response = response,
                             !.firstResponse =
                                IF s.callNo = 1 THEN response ELSE @]
       IN  slot' = [slot EXCEPT ![i] =
                 IF r.threw THEN [s EXCEPT !.pc = "done", !.threw = TRUE]
                 ELSE IF refresh THEN SendRefresh(seen, props.refreshToken)
                 ELSE [seen EXCEPT !.pc = "done", !.ret = response]]
    /\ UNCHANGED <<variant, created, props, now, exch, started, rest>>

\* A downstream response arrives in makeApiCallWithRetry
ApiCallResponse(i, r) ==
    /\ variant = "reactive"
    /\ slot[i].pc = "call_wait"
    /\ NoneDone
    /\ LET s == slot[i]
           response == [status |-> r.status, id |-> s.callNo]
           refresh == ~r.threw /\ retryDecision(r.status, s.maxRetries, s.callNo)
           seen == [s EXCEPT !.response = response,
                             !.firstResponse =
                                IF s.callNo = 1 THEN response ELSE @]
       IN  slot' = [slot EXCEPT ![i] =
                 IF r.threw THEN [s EXCEPT !.pc = "done", !.threw = TRUE]
                 ELSE IF refresh THEN SendRefresh(seen, props.refreshToken)
                 ELSE [seen EXCEPT !.pc = "done", !.ret = response]]
    /\ UNCHANGED <<variant, created, props, now, exch, started, rest>>

\* Variant: the forced refresh is skipped while the token is fresh
StartDiagnoseReactive_ifNeeded(i, forceRefresh) ==
    /\ created
    /\ variant = "reactive"
    /\ FreeForTool(i)
    /\ started < MaxInvocations
    /\ LET go == isTokenNearExpiry(props.tokenIssuedAt, 60, now)
           s == [Begin(i, "diagnose_tokens") EXCEPT !.force = forceRefresh]
       IN  slot' = [slot EXCEPT ![i] =
                 IF go THEN SendRefresh(s, props.refreshToken)
                 ELSE [s EXCEPT !.pc = "done"]]
    /\ started' = started + 1
    /\ UNCHANGED <<variant, created, props, now, exch, rest>>

\* diagnose_tokens of the reactive server
StartDiagnoseReactive(i, forceRefresh) ==
    /\ created
    /\ variant = "reactive"
    /\ FreeForTool(i)
    /\ started < MaxInvocations
    /\ LET go == forceRefresh \/ isTokenNearExpiry(props.tokenIssuedAt, 60, now)
           s == [Begin(i, "diagnose_tokens") EXCEPT !.force = forceRefresh]
       IN  slot' = [slot EXCEPT ![i] =
                 IF go THEN SendRefresh(s, props.refreshToken)
                 ELSE [s EXCEPT !.pc = "done"]]
    /\ started' = started + 1
    /\ UNCHANGED <<variant, created, props, now, exch, rest>>

\* Variant: the update starts from the refresh token read before the await
RefreshOnFailureResponse_staleRecord(i, resp) ==
    /\ variant = "reactive"
    /\ slot[i].pc = "refresh_wait"
    /\ slot[i].tool \in {"add_todo", "diagnose_tokens"}
    /\ NoneDone
    /\ LET s == slot[i]
           stale == RefreshAttempt([props EXCEPT !.refreshToken = s.sentRT],
                                   resp, now)
           attempt == IF stale.success THEN stale
                      ELSE [success |-> FALSE, props |-> props]
           after == [s EXCEPT
                       !.gotClass = ResponseClass(resp),
                       !.refreshSuccess =
                           IF attempt.success THEN "true" ELSE "false",
                       !.nWrites = IF attempt.props # props THEN @ + 1 ELSE @]
       IN  /\ props' = attempt.props
           /\ slot' = [slot EXCEPT ![i] =
                 IF s.tool = "diagnose_tokens"
                 THEN [after EXCEPT
                         !.pc = "done",
                         !.wasRefreshed =
                             attempt.props.tokenIssuedAt # s.beforeIssuedAt]
                 ELSE IF shouldRetry(attempt.success)
                 THEN SendCall(after, retryAuthorization(s.bearer, attempt.props))
                 ELSE [after EXCEPT !.pc = "done", !.ret = s.response]]
    /\ exch' = IF resp.ok THEN exch + 1 ELSE exch
    /\ UNCHANGED <<variant, created, now, started, rest>>

\* The refresh exchange of refreshTokenOnFailure answers
RefreshOnFailureResponse(i, resp) ==
    /\ variant = "reactive"
    /\ slot[i].pc = "refresh_wait"
    /\ slot[i].tool \in {"add_todo", "diagnose_tokens"}
    /\ NoneDone
    /\ LET s == slot[i]
           attempt == RefreshAttempt(props, resp, now)
           after == [s EXCEPT
                       !.gotClass = ResponseClass(resp),
                       !.refreshSuccess =
                           IF attempt.success THEN "true" ELSE "false",
                       !.nWrites = IF attempt.props # props THEN @ + 1 ELSE @]
       IN  /\ props' = attempt.props
           /\ slot' = [slot EXCEPT ![i] =
                 IF s.tool = "diagnose_tokens"
                 THEN [after EXCEPT
                         !.pc = "done",
                         !.wasRefreshed =
                             attempt.props.tokenIssuedAt # s.beforeIssuedAt]
                 ELSE IF shouldRetry(attempt.success)
                 THEN SendCall(after, retryAuthorization(s.bearer, attempt.props))
                 ELSE [after EXCEPT !.pc = "done", !.ret = s.response]]
    /\ exch' = IF resp.ok THEN exch + 1 ELSE exch
    /\ UNCHANGED <<variant, created, now, started, rest>>

(***************************************************************************)
(* Proactive server: every tool first awaits ensureValidTokens.            *)
(***************************************************************************)
\* add_todo of the proactive server: ensureValidTokens, then the request
StartAddTodoProactive(i) ==
    /\ created
    /\ variant = "proactive"
    /\ FreeForTool(i)
    /\ started < MaxInvocations
    /\ LET go == needsRefresh(props, now)
           s == [Begin(i, "add_todo") EXCEPT !.ensured = TRUE]
       IN  slot' = [slot EXCEPT ![i] =
                 IF go THEN SendRefresh(s, props.refreshToken)
                 ELSE SendCall(s, props.idToken)]
    /\ started' = started + 1
    /\ UNCHANGED <<variant, created, props, now, exch, rest>>

\* diagnose_tokens of the proactive server
StartDiagnoseProactive(i, forceRefresh) ==
    /\ created
    /\ variant = "proactive"
    /\ FreeForTool(i)
    /\ started < MaxInvocations
    /\ LET call == forceRefresh \/ isTokenNearExpiry(props.tokenIssuedAt, 60, now)
           go == call /\ needsRefresh(props, now)
           s == [Begin(i, "diagnose_tokens") EXCEPT
                   !.force = forceRefresh, !.ensured = call]
       IN  slot' = [slot EXCEPT ![i] =
                 IF go THEN SendRefresh(s, props.refreshToken)
                 ELSE [s EXCEPT !.pc = "done"]]
    /\ started' = started + 1
    /\ UNCHANGED <<variant, created, props, now, exch, rest>>

\* The refresh exchange of ensureValidTokens answers
EnsureValidResponse(i, resp) ==
    /\ variant = "proactive"
    /\ slot[i].pc = "refresh_wait"
    /\ slot[i].tool \in {"add_todo", "diagnose_tokens"}
    /\ NoneDone
    /\ LET s == slot[i]
           attempt == RefreshAttempt(props, resp, now)
           after == [s EXCEPT
                       !.gotClass = ResponseClass(resp),
                       !.refreshSuccess =
                           IF attempt.success THEN "true" ELSE "false",
                       !.nWrites = IF attempt.props # props THEN @ + 1 ELSE @]
       IN  /\ props' = attempt.props
           /\ slot' = [slot EXCEPT ![i] =
                 IF s.tool = "diagnose_tokens"
                 THEN [after EXCEPT
                         !.pc = "done",
                         !.wasRefreshed =
                             attempt.props.tokenIssuedAt # s.beforeIssuedAt]
                 ELSE SendCall(after, attempt.props.idToken)]
    /\ exch' = IF resp.ok THEN exch + 1 ELSE exch
    /\ UNCHANGED <<variant, created, now, started, rest>>

\* The downstream response of the proactive add_todo: returned as it is
AddTodoResponse(i, r) ==
    /\ variant = "proactive"
    /\ slot[i].pc = "call_wait"
    /\ NoneDone
    /\ LET s == slot[i]
           response == [status |-> r.status, id |-> s.callNo]
       IN  slot' = [slot EXCEPT ![i] =
                 IF r.threw THEN [s EXCEPT !.pc = "done", !.threw = TRUE]
                 ELSE [s EXCEPT !.pc = "done", !.response = response,
                                !.firstResponse = response, !.ret = response]]
    /\ UNCHANGED <<variant, created, props, now, exch, started, rest>>

(***************************************************************************)
(* The HTTP endpoints of the handler.  They work on what the request       *)
(* carries (here: the record the client holds) and answer with new props.  *)
(***************************************************************************)
\* POST /validate-token: reject, answer at once, or start a refresh
StartValidateToken(i) ==
    /\ created
    /\ FreeAlone(i)
    /\ started < MaxInvocations
    /\ started' = started + 1
    /\ LET s == [Begin(i, "validate_token") EXCEPT !.inProps = props]
           invalid == ~TruthyTok(props.refreshToken) \/ props.tokenIssuedAt = 0
       IN  slot' = [slot EXCEPT ![i] =
                 IF invalid THEN [s EXCEPT !.pc = "done", !.outStatus = 400,
                                           !.outError = "invalid_request"]
                 ELSE IF ~tokenNearExpiry(props, now)
                 THEN [s EXCEPT !.pc = "done", !.outStatus = 200,
                                !.outProps = props]
                 ELSE SendRefresh(s, props.refreshToken)]
    /\ UNCHANGED <<variant, created, props, now, exch, rest>>

\* Variant: /validate-token stores the props it refreshed in the record
ValidateTokenResponse_writesRecord(i, resp) ==
    /\ slot[i].pc = "refresh_wait"
    /\ slot[i].tool = "validate_token"
    /\ NoneDone
    /\ LET s == slot[i]
           updatedProps == refreshTokenIfNeeded(s.inProps, resp, now)
       IN  /\ slot' = [slot EXCEPT ![i] =
                 [s EXCEPT
                    !.pc = "done",
                    !.gotClass = ResponseClass(resp),
                    !.threw = updatedProps.threw,
                    !.outStatus = IF updatedProps.threw THEN 500 ELSE 200,
                    !.outError = IF updatedProps.threw
                                 THEN "validation_failed" ELSE "none",
                    !.outRefreshed =
                        ~updatedProps.threw /\
                        updatedProps.props.tokenIssuedAt # s.inProps.tokenIssuedAt,
                    !.outProps = IF updatedProps.threw THEN BlankProps
                                 ELSE updatedProps.props]]
           /\ props' = updatedProps.props
    /\ exch' = IF resp.ok THEN exch + 1 ELSE exch
    /\ UNCHANGED <<variant, created, now, started, rest>>

\* The exchange of refreshTokenIfNeeded answers
ValidateTokenResponse(i, resp) ==
    /\ slot[i].pc = "refresh_wait"
    /\ slot[i].tool = "validate_token"
    /\ NoneDone
    /\ LET s == slot[i]
           updatedProps == refreshTokenIfNeeded(s.inProps, resp, now)
       IN  slot' = [slot EXCEPT ![i] =
                 [s EXCEPT
                    !.pc = "done",
                    !.gotClass = ResponseClass(resp),
                    !.threw = updatedProps.threw,
                    !.outStatus = IF updatedProps.threw THEN 500 ELSE 200,
                    !.outError = IF updatedProps.threw
                                 THEN "validation_failed" ELSE "none",
                    !.outRefreshed =
                        ~updatedProps.threw /\
                        updatedProps.props.tokenIssuedAt # s.inProps.tokenIssuedAt,
                    !.outProps = IF updatedProps.threw THEN BlankProps
                                 ELSE updatedProps.props]]
    /\ exch' = IF resp.ok THEN exch + 1 ELSE exch
    /\ UNCHANGED <<variant, created, props, now, started, rest>>

\* Variant: /refresh sends its exchange without looking at refresh_token
StartRefreshEndpoint_noCheck(i, hasToken) ==
    /\ created
    /\ FreeAlone(i)
    /\ started < MaxInvocations
    /\ started' = started + 1
    /\ LET refresh_token == IF hasToken THEN props.refreshToken ELSE undefinedTok
           s == [Begin(i, "refresh_endpoint") EXCEPT
                   !.inRefreshToken = refresh_token]
       IN  slot' = [slot EXCEPT ![i] = SendRefresh(s, refresh_token)]
    /\ UNCHANGED <<variant, created, props, now, exch, rest>>

\* POST /refresh: without a refresh_token it answers 400 and sends nothing
StartRefreshEndpoint(i, hasToken) ==
    /\ created
    /\ FreeAlone(i)
    /\ started < MaxInvocations
    /\ started' = started + 1
    /\ LET refresh_token == IF hasToken THEN props.refreshToken ELSE undefinedTok
           s == [Begin(i, "refresh_endpoint") EXCEPT
                   !.inRefreshToken = refresh_token]
       IN  slot' = [slot EXCEPT ![i] =
                 IF ~TruthyTok(refresh_token)
                 THEN [s EXCEPT !.pc = "done", !.outStatus = 400,
                                !.outError = "refresh_token is required"]
                 ELSE SendRefresh(s, refresh_token)]
    /\ UNCHANGED <<variant, created, props, now, exch, rest>>

\* The exchange of POST /refresh answers
RefreshEndpointResponse(i, resp) ==
    /\ slot[i].pc = "refresh_wait"
    /\ slot[i].tool = "refresh_endpoint"
    /\ NoneDone
    /\ LET s == slot[i]
           res == refreshCognitoTokens(resp)
           parsed == parseJWT(res.tokens.id_token)
           failed == res.threw \/ res.err # 0 \/ parsed.threw
       IN  slot' = [slot EXCEPT ![i] =
                 [s EXCEPT
                    !.pc = "done",
                    !.gotClass = ResponseClass(resp),
                    !.outStatus = IF failed THEN 400 ELSE 200,
                    !.outError =
                        IF res.threw THEN "invalid_request"
                        ELSE IF res.err # 0 THEN "token_refresh_failed"
                        ELSE IF parsed.threw THEN "invalid_request"
                        ELSE "none",
                    !.outProps =
                        IF failed THEN BlankProps
                        ELSE RefreshedProps(res.tokens, parsed.payload,
                                            s.inRefreshToken, now)]]
    /\ exch' = IF resp.ok THEN exch + 1 ELSE exch
    /\ UNCHANGED <<variant, created, props, now, started, rest>>

\* The invocation has returned to its caller
Return(i) ==
    /\ slot[i].pc = "done"
    /\ slot' = [slot EXCEPT ![i] = IdleSlot]
    /\ UNCHANGED <<variant, created, props, now, exch, started, rest>>

Next ==
    \/ \E t \in ClockOffsets : Tick(t)
    \/ \E i \in Invs, hasCode \in BOOLEAN : StartCallback(i, hasCode)
    \/ \E i \in Invs, resp \in TokenEndpointResponses(1) :
          CallbackResponse(i, resp)
    \/ \E i \in Invs : StartAddTodoReactive(i)
    \/ \E i \in Invs, r \in DownstreamOutcomes : ApiCallResponse(i, r)
    \/ \E i \in Invs, f \in BOOLEAN : StartDiagnoseReactive(i, f)
    \/ \E i \in Invs, resp \in TokenEndpointResponses(exch + 2) :
          RefreshOnFailureResponse(i, resp)
    \/ \E i \in Invs : StartAddTodoProactive(i)
    \/ \E i \in Invs, f \in BOOLEAN : StartDiagnoseProactive(i, f)
    \/ \E i \in Invs, resp \in TokenEndpointResponses(exch + 2) :
          EnsureValidResponse(i, resp)
    \/ \E i \in Invs, r \in DownstreamOutcomes : AddTodoResponse(i, r)
    \/ \E i \in Invs : StartValidateToken(i)
    \/ \E i \in Invs, resp \in TokenEndpointResponses(exch + 2) :
          ValidateTokenResponse(i, resp)
    \/ \E i \in Invs, hasToken \in BOOLEAN : StartRefreshEndpoint(i, hasToken)
    \/ \E i \in Invs, resp \in TokenEndpointResponses(exch + 2) :
          RefreshEndpointResponse(i, resp)
    \/ \E i \in Invs : Return(i)

Spec == Init /\ [][Next]_vars

(***************************************************************************)
(* makeApiCallWithRetry on its own, with every value of maxRetries: two    *)
(* interleaved invocations of the reactive server on one record.  The      *)
(* retry logic does not read the clock, which stands still here.           *)
(***************************************************************************)
InitRetry ==
    /\ Init
    /\ variant = "reactive"

NextRetry ==
    \/ \E i \in Invs, hasCode \in BOOLEAN : StartCallback(i, hasCode)
    \/ \E i \in Invs, resp \in TokenEndpointResponses(1) :
          CallbackResponse(i, resp)
    \/ \E i \in Invs, m \in RetryChoices : StartApiCall(i, m)
    \/ \E i \in Invs, r \in DownstreamOutcomes : ApiCallResponse(i, r)
    \/ \E i \in Invs, resp \in TokenEndpointResponses(exch + 2) :
          RefreshOnFailureResponse(i, resp)
    \/ \E i \in Invs : Return(i)

SpecRetry == InitRetry /\ [][NextRetry]_vars

\* Every network call of an invocation is answered in the end (fetch
\* resolves or rejects), and a result is handed to the caller
RetryFairness ==
    \A i \in Invs :
        /\ WF_vars(\E r \in DownstreamOutcomes : ApiCallResponse(i, r))
        /\ WF_vars(\E resp \in TokenEndpointResponses(exch + 2) :
                      RefreshOnFailureResponse(i, resp))
        /\ WF_vars(Return(i))

\* The code exchange that issues the record whose invocations are followed
\* to their end: the provider's full answer
FullIssue ==
    {resp \in TokenEndpointResponses(1) :
        /\ resp.ok
        /\ resp.body.id_token = IdTok("jwt_full", 1)
        /\ resp.body.access_token = AccessTok(1)
        /\ resp.body.refresh_token = RefreshTok(1)}

NextRetryLive ==
    \/ \E i \in Invs, hasCode \in BOOLEAN : StartCallback(i, hasCode)
    \/ \E i \in Invs, resp \in FullIssue : CallbackResponse(i, resp)
    \/ \E i \in Invs, m \in RetryChoices : StartApiCall(i, m)
    \/ \E i \in Invs, r \in DownstreamOutcomes : ApiCallResponse(i, r)
    \/ \E i \in Invs, resp \in TokenEndpointResponses(exch + 2) :
          RefreshOnFailureResponse(i, resp)
    \/ \E i \in Invs : Return(i)

SpecRetryLive == InitRetry /\ [][NextRetryLive]_vars /\ RetryFairness

(***************************************************************************)
(* isTokenNearExpiry applied directly, on issue times, lifetimes and clock *)
(* readings around the boundary.                                           *)
(***************************************************************************)
\* How far from the boundary the issue times and clock readings reach
MaxSkew == 2

\* `expiryMinutes: number = 60`
DefaultExpiryMinutes == 60

\* the argument expiryMinutes is left out of the call
Omitted == -1

ExpiryMinutesChoices == {Omitted, 0, 1, DefaultExpiryMinutes}

ExpiryIssuedAts == {0} \cup ((StartTime - MaxSkew) .. (StartTime + MaxSkew))

\* Clock readings within MaxSkew of the second at which a token issued
\* around StartTime becomes near expiry
ExpiryClocks ==
    {StartTime + (m * 60) - (5 * 60) + d :
        m \in ExpiryMinutesChoices \ {Omitted},
        d \in (0 - (2 * MaxSkew)) .. (2 * MaxSkew)}

\* a call of isTokenNearExpiry, with the default of a left-out expiryMinutes
isTokenNearExpiryCall(tokenIssuedAt, expiryMinutes, nowv) ==
    isTokenNearExpiry(tokenIssuedAt,
                      IF expiryMinutes = Omitted THEN DefaultExpiryMinutes
                      ELSE expiryMinutes,
                      nowv)

InitExpiry ==
    /\ variant = "reactive"
    /\ created = FALSE
    /\ props = BlankProps
    /\ now \in ExpiryClocks
    /\ exch = 0
    /\ started = 0
    /\ slot = [i \in Invs |-> IdleSlot]
    /\ applied = NoCall
    /\ returned = FALSE
    /\ ApiKeyIdle

ApplyIsTokenNearExpiry(tokenIssuedAt, expiryMinutes) ==
    /\ applied' = [fn |-> "isTokenNearExpiry", tokenIssuedAt |-> tokenIssuedAt,
                   expiryMinutes |-> expiryMinutes, now |-> now]
    /\ returned' = isTokenNearExpiryCall(tokenIssuedAt, expiryMinutes, now)
    /\ UNCHANGED <<variant, created, props, now, exch, started, slot,
                   apiKeyVars>>

NextExpiry ==
    \E t \in ExpiryIssuedAts, m \in ExpiryMinutesChoices :
        ApplyIsTokenNearExpiry(t, m)

SpecExpiry == InitExpiry /\ [][NextExpiry]_vars

(***************************************************************************)
(* parseJWT applied directly.  A token string is given by what            *)
(* token.split('.') makes of it: a sequence of segments, each named by     *)
(* what atob and JSON.parse make of it.                                    *)
(***************************************************************************)
\* The longest token explored, in segments
MaxSegments == 4

\* "header" and "claims" are base64 of a JSON object; "scalar" is base64 of
\* JSON that is not an object (a number, a string, null); "notjson" is
\* base64 of other text; "notbase64" has characters atob rejects; "empty" is
\* the empty segment.
SegmentKinds ==
    {"header", "claims", "scalar", "notjson", "notbase64", "empty"}

TokenParts ==
    UNION {[1 .. n -> SegmentKinds] : n \in 1 .. MaxSegments}

\* Variant: only a token with too few segments is rejected
WrongSegmentCount_tooFew(parts) == Len(parts) < 3

\* `parts.length !== 3`
WrongSegmentCount(parts) == Len(parts) # 3

\* What the try block of parseJWT throws: "" when it returns
InnerError(parts) ==
    IF WrongSegmentCount(parts) THEN "Invalid JWT format"
    ELSE IF parts[2] = "notbase64" THEN "InvalidCharacterError"
    ELSE IF parts[2] \in {"notjson", "empty"} THEN "SyntaxError"
    ELSE ""

\* JSON.parse(atob(parts[1])) when neither throws
ParsedSegment(kind) ==
    CASE kind = "claims" ->
            [isMap |-> TRUE,
             payload |-> [sub |-> "u1", email |-> "e1",
                          given_name |-> "Ada", family_name |-> "Low"]]
      [] kind = "header" -> [isMap |-> TRUE, payload |-> NoClaims]
      [] OTHER -> [isMap |-> FALSE, payload |-> NoClaims]

\* parseJWT on a split token: the value returned, or the error its catch
\* block throws in place of whatever the try block threw
parseJWTParts(parts) ==
    IF InnerError(parts) # ""
    THEN [threw |-> TRUE, message |-> "Failed to parse JWT token",
          returnedValue |-> FALSE, isMap |-> FALSE, payload |-> NoClaims]
    ELSE [threw |-> FALSE, message |-> "",
          returnedValue |-> TRUE,
          isMap |-> ParsedSegment(parts[2]).isMap,
          payload |-> ParsedSegment(parts[2]).payload]

InitDecode ==
    /\ variant = "reactive"
    /\ created = FALSE
    /\ props = BlankProps
    /\ now = StartTime
    /\ exch = 0
    /\ started = 0
    /\ slot = [i \in Invs |-> IdleSlot]
    /\ applied = NoCall
    /\ returned = FALSE
    /\ ApiKeyIdle

\* One application to one token
ApplyParseJWT(parts) ==
    /\ applied = NoCall
    /\ applied' = [fn |-> "parseJWT", parts |-> parts]
    /\ returned' = parseJWTParts(parts)
    /\ UNCHANGED <<variant, created, props, now, exch, started, slot,
                   apiKeyVars>>

NextDecode == \E parts \in TokenParts : ApplyParseJWT(parts)

SpecDecode == InitDecode /\ [][NextDecode]_vars

(***************************************************************************)
(* The API-key Todo server (src/index.ts): set_api_key stores the key of   *)
(* the one user id in KV, add_todo resolves a key through getUserApiKey    *)
(* and sends it downstream.  Times are Date.now() in units of 1000 ms.     *)
(***************************************************************************)
\* The clock reading at the start
StartMs == 1000

\* `3650 * 24 * 60 * 60`, which set_api_key multiplies by 1000 ms
tenYearsInSeconds == 3650 * 24 * 60 * 60

\* The clients (Claude Desktop instances) whose requests reach the server;
\* getUserId gives every one of them the user id 'claude_desktop_user', so
\* they share the one KV entry
Clients == {"A", "B"}

\* The keys client c calls set_api_key with (z.string() admits the empty
\* one)
StoredKeys(c) == {"", "kS" \o c}

\* The apiKey parameter of client c's add_todo: left out, empty, or a key
ParamKeys(c) == {NoKey, "", "kP" \o c}

\* env.API_KEY as ApiKeyWorker.fetch leaves it for a request of client c:
\* not in env, or the key the request carries in its headers or URL
EnvKeys(c) == {NoKey, "kE" \o c}

\* a stored string that does not parse as JSON
LegacyEntry(text) == [format |-> "legacy", apiKey |-> text, expiresAt |-> 0]

\* JSON.stringify(apiKeyData); expiresAt 0 stands for a record without one
JsonEntry(key, expiresAt) ==
    [format |-> "json", apiKey |-> key, expiresAt |-> expiresAt]

\* The clock readings explored, after the start: the last reading before a
\* key stored at the start expires, and the reading at which it does
ApiClockOffsets == {tenYearsInSeconds - 1, tenYearsInSeconds}

\* JavaScript truthiness of a key
TruthyKey(k) == k \notin {NoKey, ""}

\* Variant: the expiry of the stored key is not looked at
StoredKeyResult_noExpiry(storedData, nowv) ==
    IF storedData.format = "legacy"
    THEN [returns |-> TRUE, key |-> storedData.apiKey]
    ELSE IF storedData.format = "json" /\ TruthyKey(storedData.apiKey)
    THEN [returns |-> TRUE, key |-> storedData.apiKey]
    ELSE [returns |-> FALSE, key |-> NoKey]

\* Priority 2 of getUserApiKey on what KV.get answered: whether the
\* function returns here, and what (NoKey for null)
StoredKeyResult(storedData, nowv) ==
    IF storedData.format = "legacy"
    THEN [returns |-> TRUE, key |-> storedData.apiKey]
    ELSE IF storedData.format = "json" /\ TruthyKey(storedData.apiKey)
    THEN IF storedData.expiresAt # 0 /\ nowv < storedData.expiresAt
         THEN [returns |-> TRUE, key |-> storedData.apiKey]
         ELSE [returns |-> TRUE, key |-> NoKey]
    ELSE [returns |-> FALSE, key |-> NoKey]

\* Priority 3 of getUserApiKey: `'API_KEY' in this.env`, else null
EnvironmentKey(envKey) == envKey

\* getUserApiKey once KV.get has answered (or thrown) without a parameter
getUserApiKey(storedData, getThrew, envKey, nowv) ==
    IF ~getThrew /\ StoredKeyResult(storedData, nowv).returns
    THEN StoredKeyResult(storedData, nowv).key
    ELSE EnvironmentKey(envKey)

\* add_todo with its effective key: the error answer, or the request
SendOrRefuse(inv, effectiveApiKey) ==
    IF ~TruthyKey(effectiveApiKey)
    THEN [inv EXCEPT !.pc = "done", !.effective = effectiveApiKey,
                     !.result = "no_api_key"]
    ELSE [inv EXCEPT !.pc = "fetch_wait", !.effective = effectiveApiKey,
                     !.sent = effectiveApiKey, !.calls = @ + 1]

InitApiKey ==
    /\ variant = "reactive"
    /\ created = FALSE
    /\ props = BlankProps
    /\ now = StartTime
    /\ exch = 0
    /\ started = 0
    /\ slot = [i \in Invs |-> IdleSlot]
    /\ applied = NoCall
    /\ returned = FALSE
    /\ hasKv \in BOOLEAN
    /\ kvStore \in IF hasKv
                   THEN {NoEntry, LegacyEntry("kL"), JsonEntry("kJ", 0)}
                   ELSE {NoEntry}
    /\ clockMs = StartMs
    /\ apiInv = IdleApiInv

\* The clock advances to a later reading
TickMs(t) ==
    /\ StartMs + t > clockMs
    /\ clockMs' = StartMs + t
    /\ UNCHANGED <<tokenVars, kvStore, hasKv, apiInv>>

\* KV drops an entry whose expirationTtl has passed, at some moment after
KvExpire ==
    /\ kvStore.format = "json"
    /\ kvStore.expiresAt # 0
    /\ clockMs >= kvStore.expiresAt
    /\ kvStore' = NoEntry
    /\ UNCHANGED <<tokenVars, clockMs, hasKv, apiInv>>

\* set_api_key(apiKey) of client c up to its KV.put
SetApiKeyStart(c, apiKey) ==
    /\ apiInv.pc = "idle"
    /\ apiInv' =
          IF hasKv
          THEN [IdleApiInv EXCEPT
                  !.tool = "set_api_key", !.pc = "put_wait", !.client = c,
                  !.param = apiKey,
                  !.data = JsonEntry(apiKey, clockMs + tenYearsInSeconds)]
          ELSE [IdleApiInv EXCEPT
                  !.tool = "set_api_key", !.pc = "done", !.client = c,
                  !.param = apiKey,
                  !.result = "kv_unavailable"]
    /\ UNCHANGED <<tokenVars, kvStore, clockMs, hasKv>>

\* KV.put resolves and set_api_key reports success, or it rejects
SetApiKeyStored(putOk) ==
    /\ apiInv.pc = "put_wait"
    /\ kvStore' = IF putOk THEN apiInv.data ELSE kvStore
    /\ apiInv' = [apiInv EXCEPT
                    !.pc = "done",
                    !.result = IF putOk THEN "success" ELSE "error"]
    /\ UNCHANGED <<tokenVars, clockMs, hasKv>>

\* add_todo of client c up to the first await of getUserApiKey
ApiKeyAddTodoStart(c, apiKey, envKey) ==
    /\ apiInv.pc = "idle"
    /\ LET inv == [IdleApiInv EXCEPT
                     !.tool = "add_todo", !.client = c, !.param = apiKey,
                     !.envKey = envKey]
       IN  apiInv' =
              IF TruthyKey(apiKey) THEN SendOrRefuse(inv, apiKey)
              ELSE IF hasKv THEN [inv EXCEPT !.pc = "get_wait"]
              ELSE SendOrRefuse(inv, EnvironmentKey(envKey))
    /\ UNCHANGED <<tokenVars, kvStore, clockMs, hasKv>>

\* KV.get answers (or throws): getUserApiKey returns, add_todo goes on
GetUserApiKeyRead(getThrew) ==
    /\ apiInv.pc = "get_wait"
    /\ LET inv == [apiInv EXCEPT
                     !.readEntry = IF getThrew THEN NoEntry ELSE kvStore,
                     !.readAt = clockMs]
       IN  apiInv' =
              SendOrRefuse(inv, getUserApiKey(kvStore, getThrew,
                                              apiInv.envKey, clockMs))
    /\ UNCHANGED <<tokenVars, kvStore, clockMs, hasKv>>

\* The downstream API answers the request of add_todo
ApiKeyAddTodoAnswered(outcome) ==
    /\ apiInv.pc = "fetch_wait"
    /\ apiInv' = [apiInv EXCEPT !.pc = "done", !.result = outcome]
    /\ UNCHANGED <<tokenVars, kvStore, clockMs, hasKv>>

\* The tool has returned
ApiKeyReturn ==
    /\ apiInv.pc = "done"
    /\ apiInv' = IdleApiInv
    /\ UNCHANGED <<tokenVars, kvStore, clockMs, hasKv>>

NextApiKey ==
    \/ \E t \in ApiClockOffsets : TickMs(t)
    \/ KvExpire
    \/ \E c \in Clients : \E k \in StoredKeys(c) : SetApiKeyStart(c, k)
    \/ \E ok \in BOOLEAN : SetApiKeyStored(ok)
    \/ \E c \in Clients :
          \E k \in ParamKeys(c), e \in EnvKeys(c) : ApiKeyAddTodoStart(c, k, e)
    \/ \E threw \in BOOLEAN : GetUserApiKeyRead(threw)
    \/ \E r \in {"created", "not_ok", "threw"} : ApiKeyAddTodoAnswered(r)
    \/ ApiKeyReturn

SpecApiKey == InitApiKey /\ [][NextApiKey]_vars

(***************************************************************************)
(* ApiKeyWorker (src/index.ts): the key of a request is taken from its     *)
(* headers or its URL and handed to the MCP handler as env.API_KEY.        *)
(* Header and parameter values are what get() returns: null, or a string,  *)
(* here a sequence of characters (header values have no leading or         *)
(* trailing whitespace).                                                   *)
(***************************************************************************)
NullText == [present |-> FALSE, text |-> <<>>]

Text(chars) == [present |-> TRUE, text |-> chars]

\* JavaScript truthiness of a string or null
TruthyText(v) == v.present /\ v.text # <<>>

\* a || b
OrElseText(a, b) == IF TruthyText(a) THEN a ELSE b

\* 'Bearer '
BearerPrefix == <<"B", "e", "a", "r", "e", "r", " ">>

\* v.startsWith(prefix)
startsWith(v, prefix) ==
    /\ Len(v.text) >= Len(prefix)
    /\ SubSeq(v.text, 1, Len(prefix)) = prefix

\* v.substring(start)
substring(v, start) ==
    Text(IF start >= Len(v.text) THEN <<>>
         ELSE SubSeq(v.text, start + 1, Len(v.text)))

\* The keys the sources of a request carry
HeaderBearerKey == <<"k", "A">>

HeaderApiKey == <<"k", "X">>

UrlLowerKey == <<"k", "U">>

UrlUpperKey == <<"k", "V">>

\* Values of the Authorization header
AuthorizationValues ==
    {NullText,
     Text(<<>>),
     Text(<<"B", "a", "s", "i", "c", " ">> \o HeaderBearerKey),
     Text(<<"b", "e", "a", "r", "e", "r", " ">> \o HeaderBearerKey),
     Text(<<"B", "e", "a", "r", "e", "r">>),
     Text(<<"B", "e", "a", "r", "e", "r">> \o HeaderBearerKey),
     Text(BearerPrefix \o HeaderBearerKey)}

\* Requests: the Authorization header, the X-API-KEY header, and the URL
\* parameters api_key and API_KEY
Requests ==
    [authorization : AuthorizationValues,
     xApiKey : {NullText, Text(<<>>), Text(HeaderApiKey)},
     api_key : {NullText, Text(<<>>), Text(UrlLowerKey)},
     API_KEY : {NullText, Text(<<>>), Text(UrlUpperKey)}]

\* The environment the worker is called with
WorkerEnvs == [API_KEY : {NullText, Text(<<"k", "E">>)}]

\* request.headers.get(name): header names are matched without regard to case
HeadersGet(request, name) ==
    IF name = "authorization" THEN request.authorization
    ELSE IF name \in {"x-api-key", "X-API-KEY"} THEN request.xApiKey
    ELSE NullText

\* url.searchParams.get(name): parameter names are matched exactly
SearchParamsGet(request, name) ==
    IF name = "api_key" THEN request.api_key
    ELSE IF name = "API_KEY" THEN request.API_KEY
    ELSE NullText

\* Variant: the X-API-KEY header is looked at before the Authorization header
extractApiKey_headerFirst(request) ==
    LET authHeader == HeadersGet(request, "authorization")
        apiKeyHeader == OrElseText(HeadersGet(request, "x-api-key"),
                                   HeadersGet(request, "X-API-KEY"))
        urlApiKey == OrElseText(SearchParamsGet(request, "api_key"),
                                SearchParamsGet(request, "API_KEY"))
    IN  IF TruthyText(apiKeyHeader) THEN apiKeyHeader
        ELSE IF TruthyText(authHeader) /\ startsWith(authHeader, BearerPrefix)
        THEN substring(authHeader, 7)
        ELSE IF TruthyText(urlApiKey) THEN urlApiKey
        ELSE NullText

\* ApiKeyWorker.extractApiKey
extractApiKey(request) ==
    LET authHeader == HeadersGet(request, "authorization")
        apiKeyHeader == OrElseText(HeadersGet(request, "x-api-key"),
                                   HeadersGet(request, "X-API-KEY"))
        urlApiKey == OrElseText(SearchParamsGet(request, "api_key"),
                                SearchParamsGet(request, "API_KEY"))
    IN  IF TruthyText(authHeader) /\ startsWith(authHeader, BearerPrefix)
        THEN substring(authHeader, 7)
        ELSE IF TruthyText(apiKeyHeader) THEN apiKeyHeader
        ELSE IF TruthyText(urlApiKey) THEN urlApiKey
        ELSE NullText

\* ApiKeyWorker.fetch: the key extracted and the environment handed to the
\* MCP handler
WorkerFetch(request, env) ==
    LET apiKey == extractApiKey(request)
    IN  [apiKey |-> apiKey,
         forwardedEnv |-> IF TruthyText(apiKey)
                          THEN [env EXCEPT !.API_KEY = apiKey]
                          ELSE env]

InitWorker ==
    /\ variant = "reactive"
    /\ created = FALSE
    /\ props = BlankProps
    /\ now = StartTime
    /\ exch = 0
    /\ started = 0
    /\ slot = [i \in Invs |-> IdleSlot]
    /\ applied = NoCall
    /\ returned = FALSE
    /\ ApiKeyIdle

\* One request to the worker
ApplyWorkerFetch(request, env) ==
    /\ applied = NoCall
    /\ applied' = [fn |-> "ApiKeyWorker.fetch", request |-> request,
                   env |-> env]
    /\ returned' = WorkerFetch(request, env)
    /\ UNCHANGED <<variant, created, props, now, exch, started, slot,
                   apiKeyVars>>

NextWorker ==
    \E request \in Requests, env \in WorkerEnvs :
        ApplyWorkerFetch(request, env)

SpecWorker == InitWorker /\ [][NextWorker]_vars

(***************************************************************************)
(* The proactive add_todo on its own, over two token lifetimes: a record   *)
(* issued at the start is refreshed when it is near expiry, and later      *)
(* invocations meet the refreshed record before and after it is near       *)
(* expiry in its turn.                                                     *)
(***************************************************************************)
\* Clock readings around the near-expiry second of the first token and of a
\* token issued then
ValidityOffsets == {3300, 3301, 6599, 6600, 6601}

InitValidity ==
    /\ Init
    /\ variant = "proactive"

NextValidity ==
    \/ \E t \in ValidityOffsets : Tick(t)
    \/ \E i \in Invs, hasCode \in BOOLEAN : StartCallback(i, hasCode)
    \/ \E i \in Invs, resp \in TokenEndpointResponses(1) :
          CallbackResponse(i, resp)
    \/ \E i \in Invs : StartAddTodoProactive(i)
    \/ \E i \in Invs, resp \in TokenEndpointResponses(exch + 2) :
          EnsureValidResponse(i, resp)
    \/ \E i \in Invs, r \in DownstreamOutcomes : AddTodoResponse(i, r)
    \/ \E i \in Invs : Return(i)

SpecValidity == InitValidity /\ [][NextValidity]_vars

(***************************************************************************)
(* Properties.                                                             *)
(***************************************************************************)
AgentTools == {"add_todo", "diagnose_tokens"}

\* The ways a refresh exchange fails: transport error, non-success status,
\* or a body that lacks a mandatory token
FailedExchange == {"throw", "rejected", "incomplete"}

ReactiveApiCall(s) == variant = "reactive" /\ s.tool = "add_todo"

\* C1: when the token is not near expiry at entry, ensureValidTokens and
\* refreshTokenIfNeeded send no refresh exchange and write nothing to the
\* record; refreshTokenIfNeeded returns the very props it was given.
C1_NoOpWhenNotNearExpiry ==
    \A i \in Invs :
        LET s == slot[i]
        IN  ((s.ensured \/ s.tool = "validate_token") /\ ~s.entryNear) =>
               /\ s.nRefresh = 0
               /\ s.nWrites = 0
               /\ s.pc # "refresh_wait"
               /\ (s.tool = "validate_token" /\ s.outStatus = 200) =>
                      (s.outProps = s.inProps /\ ~s.outRefreshed)

C1_Witness ==
    \E i \in Invs :
        /\ variant = "proactive"
        /\ slot[i].tool = "add_todo"
        /\ slot[i].ensured
        /\ ~slot[i].entryNear
        /\ slot[i].pc = "call_wait"
        /\ slot[i].nRefresh = 0

\* C2: the step that receives a failed refresh exchange (transport error,
\* non-success status, missing access_token or id_token) leaves every field
\* of the record unchanged; the proactive add_todo then sends its request
\* with the unchanged identity token, and refreshTokenIfNeeded returns the
\* props it was given.
C2_FailedRefreshLeavesRecord ==
    [][\A i \in Invs :
          (/\ slot[i].pc = "refresh_wait"
           /\ slot'[i].pc # "refresh_wait"
           /\ slot'[i].gotClass \in FailedExchange) =>
             /\ props' = props
             /\ slot'[i].nWrites = 0
             /\ (variant = "proactive" /\ slot[i].tool = "add_todo") =>
                    (slot'[i].pc = "call_wait" /\ slot'[i].bearer = props.idToken)
             /\ (slot[i].tool = "validate_token" /\ slot'[i].outStatus = 200) =>
                    (slot'[i].outProps = slot[i].inProps)]_vars

C2_Witness ==
    \E i \in Invs :
        /\ slot[i].tool \in AgentTools
        /\ slot[i].gotClass = "incomplete"
        /\ slot[i].nRefresh = 1

\* C3: a first response of 401 followed by a refresh that does not succeed:
\* makeApiCallWithRetry returns that first response, has issued one
\* downstream call only, has not written the record and has not thrown.
C3_FailedRefreshReturnsOriginal401 ==
    \A i \in Invs :
        LET s == slot[i]
        IN  (/\ ReactiveApiCall(s)
             /\ s.pc = "done"
             /\ s.firstResponse.status = 401
             /\ s.gotClass \in FailedExchange \cup {"undecodable"}) =>
               /\ s.ret = s.firstResponse
               /\ s.ret.id = 1
               /\ s.callNo = 1
               /\ s.nWrites = 0
               /\ ~s.threw

C3_Witness ==
    \E i \in Invs :
        /\ ReactiveApiCall(slot[i])
        /\ slot[i].pc = "done"
        /\ slot[i].firstResponse.status = 401
        /\ slot[i].gotClass = "rejected"
        /\ slot[i].ret.status = 401

\* C4: one invocation of makeApiCallWithRetry issues at most two downstream
\* calls and at most one refresh exchange, whatever the responses and
\* whatever maxRetries.
C4_RetryOnceBound ==
    \A i \in Invs :
        slot[i].tool = "add_todo" =>
            (slot[i].callNo <= 2 /\ slot[i].nRefresh <= 1)

C4_Witness ==
    \E i \in Invs :
        /\ ReactiveApiCall(slot[i])
        /\ slot[i].pc = "done"
        /\ slot[i].callNo = 2
        /\ slot[i].firstResponse.status = 401
        /\ slot[i].ret.status = 401

\* C5: after a first 401 with maxRetries > 0 and a successful refresh, the
\* retry is sent with the record's identity token as the commit left it, not
\* the token of the first call; it is the second and last call, and its
\* response is what the invocation returns, whatever its status.
C5_RetryUsesRefreshedToken ==
    [][\A i \in Invs :
          /\ (/\ ReactiveApiCall(slot[i])
              /\ slot[i].pc = "refresh_wait"
              /\ slot[i].maxRetries > 0
              /\ slot'[i].gotClass = "good") =>
                /\ slot'[i].pc = "call_wait"
                /\ slot'[i].callNo = 2
                /\ slot'[i].bearer = props'.idToken
                /\ slot'[i].bearer # slot[i].firstBearer
          /\ (/\ ReactiveApiCall(slot'[i])
              /\ slot'[i].pc = "done"
              /\ slot'[i].gotClass = "good"
              /\ ~slot'[i].threw) =>
                /\ slot'[i].callNo = 2
                /\ slot'[i].ret = slot'[i].response
                /\ slot'[i].ret.id = 2]_vars

C5_Witness ==
    \E i \in Invs :
        /\ ReactiveApiCall(slot[i])
        /\ slot[i].pc = "done"
        /\ slot[i].gotClass = "good"
        /\ slot[i].bearer = props.idToken
        /\ slot[i].ret = [status |-> 401, id |-> 2]

\* C6: a first response other than 401, or a 401 with maxRetries = 0, is
\* returned as it is after exactly one downstream call, with no refresh
\* exchange and no write to the record.
C6_OtherStatusReturnedAsIs ==
    \A i \in Invs :
        LET s == slot[i]
        IN  (/\ ReactiveApiCall(s)
             /\ s.firstResponse.id = 1
             /\ (s.firstResponse.status # 401 \/ s.maxRetries = 0)) =>
               /\ s.pc = "done"
               /\ s.ret = s.firstResponse
               /\ s.callNo = 1
               /\ s.nRefresh = 0
               /\ s.nWrites = 0

C6_Witness ==
    \E i \in Invs :
        /\ ReactiveApiCall(slot[i])
        /\ slot[i].pc = "done"
        /\ slot[i].maxRetries = 0
        /\ slot[i].ret = [status |-> 401, id |-> 1]

\* C7: at most one refresh exchange for the shared record is in flight at
\* any time.
C7_RefreshesSerialized ==
    Cardinality({i \in Invs : slot[i].tool \in AgentTools
                              /\ slot[i].pc = "refresh_wait"}) <= 1

\* C8: every change of an existing record is a whole update: all of
\* accessToken, idToken, refreshToken, tokenIssuedAt, tokenExpiresAt, sub,
\* email and name take the values of one update of the record as it was, and
\* no other field changes.
C8_UpdatesAllOrNothing ==
    [][(created /\ props' # props) =>
          \E b \in CompleteBodies(exch + 2) :
              LET after == updatePropsWithTokens(props, b, now)
              IN  /\ ~after.threw
                  /\ \A f \in DOMAIN props : props'[f] = after.props[f]
                  /\ props'.login = props.login]_vars

C8_Witness ==
    \E i, j \in Invs :
        /\ i # j
        /\ slot[i].nWrites = 1
        /\ slot[i].pc = "call_wait"
        /\ slot[j].pc = "refresh_wait"
        /\ slot[j].tool \in AgentTools

PairOf(p) ==
    /\ p.accessToken.k = "access"
    /\ p.idToken.k \in IdShapes
    /\ p.accessToken.n = p.idToken.n

\* C9: a record, once created, always holds an access token and an identity
\* token taken from the same provider response, and so do the props the
\* endpoints return; an exchange whose body lacks either token is answered
\* with the error of the exchange and writes nothing.
C9_MandatoryPair ==
    /\ created => PairOf(props)
    /\ \A i \in Invs :
          LET s == slot[i]
          IN  /\ (s.tool \in {"validate_token", "refresh_endpoint"}
                  /\ s.outStatus = 200) => PairOf(s.outProps)
              /\ s.gotClass = "incomplete" =>
                    /\ s.nWrites = 0
                    /\ s.tool \in AgentTools => s.refreshSuccess = "false"
                    /\ s.tool \in {"callback", "refresh_endpoint"} =>
                          s.outStatus = 400
                    /\ s.tool = "validate_token" => s.outProps = s.inProps

C9_Witness ==
    /\ created
    /\ props.accessToken.n > 1
    /\ \E i \in Invs : slot[i].gotClass = "incomplete"

\* C10: an update whose response carries no refresh token keeps the
\* record's refresh token, and a refresh token that is set is never replaced
\* by an empty or absent one; POST /refresh answers with the new refresh
\* token or else with the one it was sent.
C10_RefreshTokenRetention ==
    [][/\ (created /\ props' # props) =>
             /\ props'.refreshToken # RefreshTok(props'.accessToken.n) =>
                    props'.refreshToken = props.refreshToken
             /\ TruthyTok(props.refreshToken) => TruthyTok(props'.refreshToken)
       /\ \A i \in Invs :
             (slot'[i].tool = "refresh_endpoint" /\ slot'[i].outStatus = 200) =>
                 \/ slot'[i].outProps.refreshToken =
                        RefreshTok(slot'[i].outProps.accessToken.n)
                 \/ slot'[i].outProps.refreshToken = slot'[i].inRefreshToken]_vars

C10_Witness ==
    /\ created
    /\ props.accessToken.n > 1
    /\ TruthyTok(props.refreshToken)
    /\ props.refreshToken.n < props.accessToken.n

\* The answers of the HTTP endpoints that carry a record
EndpointRecords ==
    {slot[i].outProps : i \in {j \in Invs :
        /\ slot[j].tool \in {"validate_token", "refresh_endpoint"}
        /\ slot[j].pc = "done"
        /\ slot[j].outStatus = 200}}

\* C11: the stored record, once created, and every record an endpoint
\* returns expire exactly 3600 seconds after they were issued, whatever
\* expires_in the provider sent; so the issue time never exceeds the expiry.
C11_FixedExpiryWindow ==
    /\ created => props.tokenExpiresAt - props.tokenIssuedAt = 3600
    /\ props.tokenIssuedAt <= props.tokenExpiresAt
    /\ \A p \in EndpointRecords :
          /\ p.tokenExpiresAt - p.tokenIssuedAt = 3600
          /\ p.tokenIssuedAt <= p.tokenExpiresAt

\* A refresh whose response carried an expires_in other than 3600 (the bodies
\* with a full identity token and no refresh token) has updated the record.
C11_Witness ==
    /\ created
    /\ props.idToken.k = "jwt_full"
    /\ props.accessToken.n > 1
    /\ props.refreshToken.n # props.accessToken.n
    /\ \E i \in Invs : slot[i].refreshSuccess = "true"

\* C12: for diagnose_tokens of the reactive server that called
\* refreshTokenOnFailure, the wasRefreshed flag (tokenIssuedAt after the call
\* differs from tokenIssuedAt before it) is true exactly when
\* refreshTokenOnFailure returned true.
C12_WasRefreshedIffSucceeded ==
    \A i \in Invs :
        (/\ variant = "reactive"
         /\ slot[i].tool = "diagnose_tokens"
         /\ slot[i].pc = "done"
         /\ slot[i].nRefresh = 1)
        => (slot[i].wasRefreshed <=> slot[i].refreshSuccess = "true")

\* C13: on the reactive server a forced diagnose_tokens calls
\* refreshTokenOnFailure whether or not the token is near expiry, and every
\* call of refreshTokenOnFailure (forced, or after a 401) sends exactly one
\* refresh exchange, carrying the refresh token the record holds at that
\* moment; the answer of the exchange does not lead to another one.
C13_ForceRefreshUnconditional ==
    [][\A i \in Invs :
          variant = "reactive" =>
            /\ (/\ slot[i].pc = "idle"
                /\ slot'[i].tool = "diagnose_tokens"
                /\ slot'[i].force)
               => /\ slot'[i].pc = "refresh_wait"
                  /\ slot'[i].nRefresh = 1
                  /\ slot'[i].sentRT = props.refreshToken
            /\ (slot[i].pc # "refresh_wait" /\ slot'[i].pc = "refresh_wait")
               => /\ slot'[i].nRefresh = slot[i].nRefresh + 1
                  /\ slot'[i].sentRT = props.refreshToken
            /\ (slot[i].pc = "refresh_wait" /\ slot'[i].pc # "refresh_wait")
               => slot'[i].nRefresh = slot[i].nRefresh]_vars

\* A forced diagnose_tokens on a token that is not near expiry has sent its
\* refresh exchange and got the answer.
C13_Witness ==
    \E i \in Invs :
        /\ variant = "reactive"
        /\ slot[i].tool = "diagnose_tokens"
        /\ slot[i].force
        /\ ~slot[i].entryNear
        /\ slot[i].pc = "done"
        /\ slot[i].nRefresh = 1
        /\ slot[i].sentRT = RefreshTok(1)

\* C14: no refresh exchange is sent without a credential: every refresh
\* request an invocation or an endpoint has sent carried a refresh token
\* that is neither absent nor empty.
C14_NoExchangeWithoutRefreshToken ==
    \A i \in Invs :
        slot[i].nRefresh > 0 => TruthyTok(slot[i].sentRT)

\* C15: one invocation of makeApiCallWithRetry writes the shared record at
\* most once: every step that changes the existing record is the commit of
\* one invocation whose first response was 401, whose refresh succeeded and
\* which had not written before; no other step of an invocation counts as a
\* write, and no invocation ever has more than one.
C15_WritesAtMostOnce ==
    [][/\ (created /\ props' # props) =>
            \E i \in Invs :
                /\ slot[i].tool = "add_todo"
                /\ slot[i].pc = "refresh_wait"
                /\ slot[i].maxRetries > 0
                /\ slot[i].firstResponse.status = 401
                /\ slot[i].nWrites = 0
                /\ slot'[i].nWrites = 1
                /\ slot'[i].refreshSuccess = "true"
                /\ \A j \in Invs \ {i} : slot'[j] = slot[j]
       /\ (created /\ props' = props) =>
            \A i \in Invs : slot'[i].nWrites \in {slot[i].nWrites, 0}
       /\ \A i \in Invs : slot'[i].nWrites <= 1]_vars

\* An invocation got 401, refreshed, wrote the record once and got the answer
\* of its retry, while another invocation was on its way.
C15_Witness ==
    \E i \in Invs :
        /\ slot[i].tool = "add_todo"
        /\ slot[i].pc = "done"
        /\ slot[i].callNo = 2
        /\ slot[i].nWrites = 1
        /\ \E j \in Invs \ {i} : slot[j].pc \in {"call_wait", "refresh_wait"}

\* C16: isTokenNearExpiry returns true exactly when
\* tokenIssuedAt + expiryMinutes * 60 <= now + 300, the boundary included and
\* expiryMinutes being 60 when left out; the call leaves the clock and the
\* record as they were.
C16_NearExpiryBoundary ==
    applied.fn = "isTokenNearExpiry" =>
        LET ttl == IF applied.expiryMinutes = Omitted THEN 60
                   ELSE applied.expiryMinutes
        IN  /\ returned =
                 (applied.tokenIssuedAt + (ttl * 60) <= applied.now + 300)
            /\ now = applied.now
            /\ props = BlankProps

\* The call at the boundary second, with the lifetime left out, returned true.
C16_Witness ==
    /\ applied.fn = "isTokenNearExpiry"
    /\ applied.expiryMinutes = Omitted
    /\ applied.tokenIssuedAt + 3600 = applied.now + 300
    /\ returned = TRUE

\* The claims of the identity token a record holds
ClaimsOf(p) == parseJWT(p.idToken).payload

\* sub and email of record q are those of its identity token where the token
\* has them, and those of record p otherwise; what p had set is still set
IdentityKept(p, q) ==
    /\ q.sub = IF Truthy(ClaimsOf(q).sub) THEN ClaimsOf(q).sub ELSE p.sub
    /\ q.email = IF Truthy(ClaimsOf(q).email) THEN ClaimsOf(q).email
                 ELSE p.email
    /\ Truthy(p.sub) => Truthy(q.sub)
    /\ Truthy(p.email) => Truthy(q.email)

\* C17: every update of a record by updatePropsWithTokens (the commit of a
\* refresh on the shared record, and the record POST /validate-token returns
\* after a refresh) takes sub and email from the new identity token where
\* it carries them and keeps the previous values otherwise, so a sub or
\* email that was set stays set.
C17_IdentityNeverErased ==
    [][/\ (created /\ props' # props) => IdentityKept(props, props')
       /\ \A i \in Invs :
            (/\ slot[i].tool = "validate_token"
             /\ slot[i].pc = "refresh_wait"
             /\ slot'[i].outRefreshed)
            => IdentityKept(slot[i].inProps, slot'[i].outProps)]_vars

\* A refresh whose identity token carries neither sub nor email has updated
\* a record that had both.
C17_Witness ==
    /\ created
    /\ props.idToken.k = "jwt_bare"
    /\ props.accessToken.n > 1
    /\ props.sub = "u1"
    /\ props.email \in {"e1", "e2"}

\* The name the precedence rule gives for claims c and previous name prev
NamePrecedence(c, prev) ==
    IF Truthy(c.given_name) /\ Truthy(c.family_name)
    THEN c.given_name \o " " \o c.family_name
    ELSE IF Truthy(c.email) THEN c.email
    ELSE prev

\* C18: the name of a record after an update is the full name when the new
\* identity token has given_name and family_name, otherwise its email claim
\* when it has one, otherwise the previous name; the record the callback
\* creates follows the same rule with nothing as the previous name.
C18_DisplayNamePrecedence ==
    [][/\ (created /\ props' # props)
          => props'.name = NamePrecedence(ClaimsOf(props'), props.name)
       /\ (~created /\ created')
          => props'.name = NamePrecedence(ClaimsOf(props'), undefined)
       /\ \A i \in Invs :
            (/\ slot[i].tool = "validate_token"
             /\ slot[i].pc = "refresh_wait"
             /\ slot'[i].outRefreshed)
            => slot'[i].outProps.name =
                 NamePrecedence(ClaimsOf(slot'[i].outProps),
                                slot[i].inProps.name)]_vars

\* A record was refreshed twice: first with an identity
\* token that has only an email, then with one that has no claims; it keeps
\* the email as its name.
C18_Witness ==
    /\ created
    /\ props.idToken.k = "jwt_bare"
    /\ props.accessToken.n > 2
    /\ props.name = "e2"
    /\ props.email = "e2"

\* sub, email, name, the two mandatory tokens and the two times are all set
AllMandatorySet(p) ==
    /\ Truthy(p.sub)
    /\ Truthy(p.email)
    /\ Truthy(p.name)
    /\ TruthyTok(p.accessToken)
    /\ TruthyTok(p.idToken)
    /\ p.tokenIssuedAt # 0
    /\ p.tokenExpiresAt # 0

\* C19: the record the callback stores, as refreshes update it, and every
\* record an endpoint returns have sub, email, name, accessToken, idToken,
\* tokenIssuedAt and tokenExpiresAt all set.
C19_NoAbsentField ==
    /\ created => AllMandatorySet(props)
    /\ \A p \in EndpointRecords : AllMandatorySet(p)

\* C20: when a refresh exchange of a tool succeeds but the new identity token
\* cannot be decoded, the step that receives it writes no field of the
\* record, the refresh counts as failed and nothing is thrown to the tool:
\* makeApiCallWithRetry returns its first response without a retry, and the
\* proactive add_todo goes on to its request with the identity token it had.
C20_DecodeFailureKeepsRecord ==
    [][\A i \in Invs :
          (/\ slot[i].tool \in AgentTools
           /\ slot[i].pc = "refresh_wait"
           /\ slot'[i].pc # "refresh_wait"
           /\ slot'[i].gotClass = "undecodable")
          => /\ props' = props
             /\ slot'[i].refreshSuccess = "false"
             /\ slot'[i].nWrites = slot[i].nWrites
             /\ ~slot'[i].threw
             /\ (variant = "reactive" /\ slot[i].tool = "add_todo")
                => /\ slot'[i].pc = "done"
                   /\ slot'[i].ret = slot[i].firstResponse
                   /\ slot'[i].callNo = 1
             /\ (variant = "proactive" /\ slot[i].tool = "add_todo")
                => /\ slot'[i].pc = "call_wait"
                   /\ slot'[i].bearer = props.idToken]_vars

\* A tool's refresh was answered with both tokens and an identity token
\* that does not decode, and the tool has returned.
C20_Witness ==
    \E i \in Invs :
        /\ slot[i].tool \in AgentTools
        /\ slot[i].gotClass = "undecodable"
        /\ slot[i].refreshSuccess = "false"
        /\ slot[i].pc = "done"
        /\ props.accessToken = AccessTok(1)

\* C21: parseJWT throws for every token that does not split into exactly
\* three segments, and returns no value for it, whatever the segments hold.
C21_WrongSegmentCountFails ==
    (applied.fn = "parseJWT" /\ Len(applied.parts) # 3)
    => /\ returned.threw
       /\ ~returned.returnedValue
       /\ returned.payload = NoClaims

\* A token of four segments whose second segment holds decodable claims
\* was rejected.
C21_Witness ==
    /\ applied.fn = "parseJWT"
    /\ Len(applied.parts) = 4
    /\ applied.parts[2] = "claims"
    /\ returned.threw

\* The message of the error thrown for a wrong number of segments
MalformedMessage == parseJWTParts(<<"header">>).message

\* C22: for a token of three segments whose second segment does not decode
\* to a JSON object, parseJWT throws an error that can be told apart from
\* the one it throws for a wrong number of segments.
C22_InvalidPayloadDistinct ==
    (/\ applied.fn = "parseJWT"
     /\ Len(applied.parts) = 3
     /\ applied.parts[2] \in {"scalar", "notjson", "notbase64", "empty"})
    => /\ returned.threw
       /\ returned.message # MalformedMessage

\* C23: the record exists only after a code exchange that returned both
\* tokens and an identity token that decodes.  A callback without a code
\* answers 400 without an exchange; a callback whose exchange is rejected or
\* incomplete returns the error response (500, 400); in each of these cases,
\* and while the exchange is awaited, there is no record.
C23_RecordOnlyAfterCodeExchange ==
    /\ ~created => props = BlankProps
    /\ \A i \in Invs :
          slot[i].tool = "callback" =>
            /\ slot[i].pc = "code_wait" => ~created
            /\ slot[i].pc = "done" =>
                 /\ created <=> slot[i].gotClass = "good"
                 /\ slot[i].outStatus = 302 <=> slot[i].gotClass = "good"
                 /\ slot[i].nWrites = IF created THEN 1 ELSE 0
                 /\ slot[i].gotClass = "none" => slot[i].outStatus = 400
                 /\ slot[i].gotClass = "rejected" => slot[i].outStatus = 500
                 /\ slot[i].gotClass = "incomplete" => slot[i].outStatus = 400

\* A callback whose exchange returned both tokens, with an identity token
\* that does not decode, has ended without a record.
C23_Witness ==
    \E i \in Invs :
        /\ slot[i].tool = "callback"
        /\ slot[i].pc = "done"
        /\ slot[i].gotClass = "undecodable"
        /\ ~created

\* C24: in an add_todo invocation the ensure-valid check has run before any
\* downstream call is issued, and an invocation that returns after a first
\* response of 401 has attempted a refresh.
C24_EnsureValidThenCallThenRefresh ==
    \A i \in Invs :
        slot[i].tool = "add_todo" =>
          /\ slot[i].callNo >= 1 => slot[i].ensured
          /\ (slot[i].pc = "done" /\ slot[i].firstResponse.status = 401)
             => slot[i].nRefresh >= 1

\* The key the stored entry supplies at time nowv: a legacy string, or the
\* key of a JSON entry that has not expired
UsableStoredKey(entry, nowv) ==
    IF entry.format = "legacy" THEN entry.apiKey
    ELSE IF /\ entry.format = "json"
            /\ TruthyKey(entry.apiKey)
            /\ entry.expiresAt # 0
            /\ nowv < entry.expiresAt
    THEN entry.apiKey
    ELSE NoKey

\* The key of the highest-priority source that supplies one
HighestPriorityKey(inv) ==
    IF TruthyKey(inv.param) THEN inv.param
    ELSE IF UsableStoredKey(inv.readEntry, inv.readAt) # NoKey
    THEN UsableStoredKey(inv.readEntry, inv.readAt)
    ELSE inv.envKey

\* C25: the key getUserApiKey returns to add_todo is the tool parameter if
\* one is given, otherwise the usable key of the KV entry if there is one,
\* otherwise the key of the environment; it is null only when no source
\* supplies a key.
C25_KeyByPriority ==
    (apiInv.tool = "add_todo" /\ apiInv.pc \in {"fetch_wait", "done"})
    => apiInv.effective = HighestPriorityKey(apiInv)

\* C26: an add_todo without apiKey parameter that read, before its expiry,
\* the entry a successful set_api_key(k) stored sends k as x-api-key.
C26_StoredKeyRoundTrip ==
    (/\ apiInv.tool = "add_todo"
     /\ apiInv.pc \in {"fetch_wait", "done"}
     /\ apiInv.param = NoKey
     /\ apiInv.readEntry.format = "json"
     /\ apiInv.readEntry.expiresAt # 0
     /\ apiInv.readAt < apiInv.readEntry.expiresAt)
    => /\ apiInv.calls = 1
       /\ apiInv.sent = apiInv.readEntry.apiKey

\* The key a request's Authorization header carries: what follows 'Bearer '
BearerKeyOf(request) ==
    IF \E key \in {HeaderBearerKey} :
           request.authorization = Text(BearerPrefix \o key)
    THEN Text(HeaderBearerKey)
    ELSE NullText

\* The key a request's URL carries: api_key, or else API_KEY
UrlKeyOf(request) ==
    IF request.api_key \notin {NullText, Text(<<>>)} THEN request.api_key
    ELSE IF request.API_KEY \notin {NullText, Text(<<>>)}
    THEN request.API_KEY
    ELSE NullText

\* The key of the first source of a request that carries one
FirstCarriedKey(request) ==
    IF BearerKeyOf(request) # NullText THEN BearerKeyOf(request)
    ELSE IF request.xApiKey \notin {NullText, Text(<<>>)}
    THEN request.xApiKey
    ELSE UrlKeyOf(request)

\* C27: extractApiKey returns the key of the first source that carries one,
\* in the order Authorization 'Bearer ' header, X-API-KEY header, URL
\* parameter; it returns null when no source carries a key; fetch hands on
\* the environment with API_KEY replaced by that key when one was found and
\* the environment it was given otherwise.
C27_FirstCarriedKeyForwarded ==
    applied.fn = "ApiKeyWorker.fetch"
    => /\ returned.apiKey = FirstCarriedKey(applied.request)
       /\ returned.forwardedEnv =
              IF FirstCarriedKey(applied.request) # NullText
              THEN [API_KEY |-> FirstCarriedKey(applied.request)]
              ELSE applied.env

\* A request carrying a key in all three sources was forwarded with the key
\* of its Authorization header in place of the environment's.
C27_Witness ==
    /\ applied.fn = "ApiKeyWorker.fetch"
    /\ applied.request.authorization = Text(BearerPrefix \o HeaderBearerKey)
    /\ applied.request.xApiKey = Text(HeaderApiKey)
    /\ applied.request.api_key = Text(UrlLowerKey)
    /\ applied.env.API_KEY = Text(<<"k", "E">>)
    /\ returned.forwardedEnv.API_KEY = Text(HeaderBearerKey)

\* C28: on the proactive server a diagnose_tokens called with
\* forceRefresh = true sends a refresh exchange whether or not the token is
\* near expiry.
C28_ProactiveForceRefreshes ==
    \A i \in Invs :
        (/\ variant = "proactive"
         /\ slot[i].tool = "diagnose_tokens"
         /\ slot[i].force
         /\ slot[i].pc # "idle")
        => slot[i].nRefresh = 1

\* C30: in every 200 answer of /validate-token the refreshed flag is true
\* exactly when a refresh exchange was sent and answered with new tokens;
\* when the flag is false (token still valid, or refresh failed) the tokens
\* returned are the props submitted.
C30_RefreshedFlagExact ==
    \A i \in Invs :
        (/\ slot[i].tool = "validate_token"
         /\ slot[i].pc = "done"
         /\ slot[i].outStatus = 200)
        => /\ slot[i].outRefreshed
              <=> (slot[i].nRefresh = 1 /\ slot[i].gotClass = "good")
           /\ ~slot[i].outRefreshed => slot[i].outProps = slot[i].inProps

\* /validate-token sent a refresh exchange that the provider rejected and
\* answered 200 with refreshed false and the props submitted.
C30_Witness ==
    \E i \in Invs :
        /\ slot[i].tool = "validate_token"
        /\ slot[i].pc = "done"
        /\ slot[i].outStatus = 200
        /\ slot[i].nRefresh = 1
        /\ slot[i].gotClass = "rejected"
        /\ ~slot[i].outRefreshed
        /\ slot[i].outProps = slot[i].inProps

\* C29: an existing record is changed only by the commit of a tool's
\* refresh (ensureValidTokens, refreshTokenOnFailure) whose update
\* succeeded; every other step (a tool starting, a downstream answer, a
\* failed update, the steps of /validate-token and /refresh) leaves the
\* record as it was, and the endpoints leave the props they were given as
\* they were while they build their answer.
C29_OnlyLifecycleManagerWrites ==
    [][/\ (created /\ props' # props) =>
            \E i \in Invs :
                /\ slot[i].tool \in AgentTools
                /\ slot[i].pc = "refresh_wait"
                /\ slot'[i].pc # "refresh_wait"
                /\ slot'[i].refreshSuccess = "true"
       /\ \A i \in Invs :
            (/\ slot[i].tool \in {"validate_token", "refresh_endpoint"}
             /\ slot[i].pc = "refresh_wait")
            => /\ props' = props
               /\ slot'[i].inProps = slot[i].inProps
               /\ slot'[i].inRefreshToken = slot[i].inRefreshToken]_vars

\* /validate-token answered with refreshed props that differ from the props
\* it was given, and the record is still what it was given.
C29_Witness ==
    \E i \in Invs :
        /\ slot[i].tool = "validate_token"
        /\ slot[i].pc = "done"
        /\ slot[i].outRefreshed
        /\ slot[i].outProps # slot[i].inProps
        /\ slot[i].inProps = props

C32_RefreshMakesValid ==
    [][\A i \in Invs :
          /\ (/\ slot[i].pc = "refresh_wait"
              /\ slot'[i].pc # "refresh_wait"
              /\ slot'[i].refreshSuccess = "true")
             => /\ props'.tokenIssuedAt = now
                /\ ~isTokenNearExpiry(props'.tokenIssuedAt, 60, now')
          /\ (/\ slot[i].pc = "idle"
              /\ slot'[i].tool = "add_todo"
              /\ now < props.tokenIssuedAt + 3300)
             => /\ slot'[i].pc = "call_wait"
                /\ slot'[i].nRefresh = 0]_vars

\* A record refreshed when it was near expiry is met, 3299 seconds after
\* the refresh, by an add_todo that sends its request without an exchange.
C32_Witness ==
    \E i \in Invs :
        /\ props.accessToken.n > 1
        /\ props.tokenIssuedAt > StartTime
        /\ now = props.tokenIssuedAt + 3299
        /\ slot[i].tool = "add_todo"
        /\ slot[i].pc = "call_wait"
        /\ ~slot[i].entryNear
        /\ slot[i].nRefresh = 0

\* C33: on every record the server holds, at every clock reading, the
\* status value of userInfo (tokenExpiresAt - now <= 300) equals
\* isTokenNearExpiry(tokenIssuedAt) evaluated at the same reading.
C33_NearExpiryComputationsAgree ==
    created =>
        (isNearExpiry(props, now)
         <=> isTokenNearExpiry(props.tokenIssuedAt, DefaultExpiryMinutes, now))

\* A refreshed record at the first second at which both computations say
\* it is near expiry.
C33_Witness ==
    /\ created
    /\ props.accessToken.n > 1
    /\ now = props.tokenIssuedAt + 3300
    /\ isNearExpiry(props, now)
    /\ isTokenNearExpiry(props.tokenIssuedAt, DefaultExpiryMinutes, now)

\* C34: the refresh token a commit writes is the one of its own response or
\* the one the record holds at the commit; when the record's refresh token
\* has changed since the invocation sent its exchange, the commit does not
\* put back the token it had sent.
C34_NoStaleRefreshToken ==
    [][\A i \in Invs :
          (/\ slot[i].tool \in AgentTools
           /\ slot[i].pc = "refresh_wait"
           /\ slot'[i].pc # "refresh_wait"
           /\ slot'[i].refreshSuccess = "true")
          => /\ props'.refreshToken \in
                    {RefreshTok(props'.accessToken.n), props.refreshToken}
             /\ slot[i].sentRT # props.refreshToken
                    => props'.refreshToken # slot[i].sentRT]_vars

\* Two refreshes interleaved: the first commit stored the refresh token of
\* its response, and the second commit, whose response carried none, kept
\* that token and not the one it had sent.
C34_Witness ==
    \E i, j \in Invs :
        /\ i # j
        /\ slot[i].refreshSuccess = "true"
        /\ slot[j].refreshSuccess = "true"
        /\ slot[i].sentRT = slot[j].sentRT
        /\ props.refreshToken # slot[j].sentRT
        /\ props.accessToken.n > props.refreshToken.n
        /\ props.refreshToken.n > 1

\* C35: an add_todo request of a client that arrived carrying its own API
\* key never sends as x-api-key a key that another client stored through
\* set_api_key.
C35_NoKeyLeakAcrossClients ==
    (/\ apiInv.tool = "add_todo"
     /\ apiInv.envKey # NoKey
     /\ apiInv.calls > 0)
    => \A d \in Clients \ {apiInv.client} :
           apiInv.sent \notin (StoredKeys(d) \ {""})

\* C36: the callback creates the record with login equal to email; every
\* refresh keeps login as it was, also when it takes another email from the
\* new identity token, after which login and email differ.
C36_LoginKeptByRefresh ==
    [][/\ (~created /\ created') => props'.login = props'.email
       /\ (created /\ props' # props) =>
             /\ props'.login = props.login
             /\ (/\ props.login = props.email
                 /\ Truthy(ClaimsOf(props').email)
                 /\ ClaimsOf(props').email # props.email)
                => props'.login # props'.email]_vars

\* A refresh brought another email: the record's login is still the email
\* it was created with.
C36_Witness ==
    /\ created
    /\ props.accessToken.n > 1
    /\ Truthy(props.login)
    /\ Truthy(props.email)
    /\ props.login # props.email
    /\ props.email = ClaimsOf(props).email

C38_InvocationTerminates ==
    \A i \in Invs :
        (slot[i].tool = "add_todo" /\ slot[i].pc \in {"call_wait", "refresh_wait"})
        ~> (/\ slot[i].tool = "add_todo"
            /\ slot[i].pc = "done"
            /\ slot[i].threw \/ slot[i].ret.status # 0)

\* An invocation whose retry was answered 401 again has returned that
\* response after one refresh and two requests.
C38_Witness ==
    \E i \in Invs :
        /\ slot[i].tool = "add_todo"
        /\ slot[i].pc = "done"
        /\ slot[i].maxRetries = 2
        /\ slot[i].callNo = 2
        /\ slot[i].nRefresh = 1
        /\ slot[i].ret.status = 401
        /\ slot[i].ret.id = 2

\* C39: with a clock that does not go back, no step lowers the record's
\* tokenIssuedAt, and only the commit of a successful refresh changes it,
\* whatever the interleaving of the invocations.
C39_IssuedAtNeverDecreases ==
    [][created =>
          /\ props'.tokenIssuedAt >= props.tokenIssuedAt
          /\ props'.tokenIssuedAt # props.tokenIssuedAt =>
                \E i \in Invs :
                    /\ slot[i].tool \in AgentTools
                    /\ slot[i].pc = "refresh_wait"
                    /\ slot'[i].refreshSuccess = "true"
                    /\ props'.tokenIssuedAt = now]_vars

\* Two interleaved refreshes have both committed after the clock had
\* advanced: the record carries the clock reading of the last commit.
C39_Witness ==
    \E i, j \in Invs :
        /\ i # j
        /\ slot[i].refreshSuccess = "true"
        /\ slot[j].refreshSuccess = "true"
        /\ slot[i].nWrites = 1
        /\ slot[j].nWrites = 1
        /\ props.tokenIssuedAt = now
        /\ now > StartTime
        /\ props.accessToken.n = 3

====
